---- MODULE Spec2Model ----
(***************************************************************************)
(* dandidav: the WebDAV request handler (src/dav/mod.rs).                  *)
(*                                                                         *)
(* A request is handled by a task that runs from one suspension point      *)
(* (a backend call, the extraction of the PROPFIND parameters) to the      *)
(* next.  The backend is read-only: its content is fixed by Init, and any  *)
(* single call may fail with a not-found or with another error.            *)
(*                                                                         *)
(* The directory paths (src/paths/dirpath.rs) are pure values: they are    *)
(* modelled as operators on strings and exercised by a specification of    *)
(* their own, SpecPath, that parses a string and operates on the result;    *)
(* SpecOps applies sequences of operations to a value.                      *)
(***************************************************************************)
EXTENDS Naturals, Sequences, FiniteSets, TLC

\* ------------------------------------------------------------------ bounds
\* Longest root listing of a version served by the Archive.
MaxChildren == 2
\* Longest version history of a Dandiset served by the Archive.
MaxVersions == 2
\* Longest string given to the parser of PureDirPath.
MaxLen == 6
\* Longest sequence of operations applied to a PureDirPath.
MaxOps == 3

\* --------------------------------------------------------------- constants
WEBDAV_RESPONSE_HEADERS ==
    { <<"Allow", "GET, HEAD, OPTIONS, PROPFIND">>, <<"DAV", "1, 3">> }

DandisetIds == {"000001", "000002"}
PublishedVersionIds == {"0.210812.1448", "0.230629.1955"}

\* Option<T>
None == [some |-> FALSE]
Some(x) == [some |-> TRUE, val |-> x]

\* Result<T, E>
Ok(x) == [ok |-> TRUE, val |-> x]
Err(e) == [ok |-> FALSE, err |-> e]

\* ------------------------------------------------------------ version ids
\* dandi::VersionId
Draft == [tag |-> "Draft"]
Published(v) == [tag |-> "Published", v |-> v]
VersionIds == {Draft} \cup {Published(v) : v \in PublishedVersionIds}

\* dav::VersionSpec
Latest == [tag |-> "Latest"]
VersionSpecs == {Draft, Latest} \cup {Published(v) : v \in PublishedVersionIds}

\* ---------------------------------------------------------------- DavPath
Root == [tag |-> "Root"]
DandisetIndex == [tag |-> "DandisetIndex"]
Dandiset(id) == [tag |-> "Dandiset", dandiset_id |-> id]
DandisetReleases(id) == [tag |-> "DandisetReleases", dandiset_id |-> id]
Version(id, spec) == [tag |-> "Version", dandiset_id |-> id, version |-> spec]
DandisetYaml(id, spec) ==
    [tag |-> "DandisetYaml", dandiset_id |-> id, version |-> spec]
DandiResource(id, spec, p) ==
    [tag |-> "DandiResource", dandiset_id |-> id, version |-> spec, path |-> p]
ZarrIndex == [tag |-> "ZarrIndex"]
ZarrPath(p) == [tag |-> "ZarrPath", path |-> p]

VersionedTags == {"Version", "DandisetYaml", "DandiResource"}

\* Whether sequence p starts with sequence q.
IsPrefix(q, p) == Len(q) <= Len(p) /\ SubSeq(p, 1, Len(q)) = q

\* The elements of sequence s after the first n.
Drop(s, n) == SubSeq(s, n + 1, Len(s))

\* -------------------------------------------------------- route grammar
\* A URL path segment is a paths::Component unless it is empty, "." or "..".
IsComponent(s) == s \notin {"", ".", ".."}

\* The request path split into Components; None when a segment is not one.
split_uri_path(uri) ==
    IF \A i \in 1..Len(uri) : IsComponent(uri[i]) THEN Some(uri) ELSE None

\* The version spec a path segment names, if any.
parse_version_spec(s) ==
    IF s = "draft" THEN Some(Draft)
    ELSE IF s = "latest" THEN Some(Latest)
    ELSE IF s \in PublishedVersionIds THEN Some(Published(s))
    ELSE None

\* DavPath::from_components: the fixed, ordered route grammar.
from_components(parts) ==
    IF parts = <<>> THEN Some(Root)
    ELSE IF parts[1] = "dandisets" THEN
        IF Len(parts) = 1 THEN Some(DandisetIndex)
        ELSE IF parts[2] \notin DandisetIds THEN None
        ELSE IF Len(parts) = 2 THEN Some(Dandiset(parts[2]))
        ELSE IF Len(parts) = 3 /\ parts[3] = "releases"
            THEN Some(DandisetReleases(parts[2]))
        ELSE IF ~parse_version_spec(parts[3]).some THEN None
        ELSE IF Len(parts) = 3
            THEN Some(Version(parts[2], parse_version_spec(parts[3]).val))
        ELSE IF Len(parts) = 4 /\ parts[4] = "dandiset.yaml"
            THEN Some(DandisetYaml(parts[2], parse_version_spec(parts[3]).val))
        ELSE Some(DandiResource(parts[2], parse_version_spec(parts[3]).val,
                                Drop(parts, 3)))
    ELSE IF parts[1] = "zarrs" THEN
        IF Len(parts) = 1 THEN Some(ZarrIndex) ELSE Some(ZarrPath(Drop(parts, 1)))
    ELSE None

\* The address of a Dandiset version as the client names it.
version_path(dandiset_id, version_spec) ==
    << "dandisets", dandiset_id,
       CASE version_spec.tag = "Draft" -> "draft"
         [] version_spec.tag = "Latest" -> "latest"
         [] version_spec.tag = "Published" -> version_spec.v >>

\* --------------------------------------------------------- resource model
\* dav::types::DavCollection
DavCollection(kind, path, origin) ==
    [type |-> "Collection", kind |-> kind, path |-> path, origin |-> origin]

\* dav::types::DavItem; content is Blob, Redirect or Missing
DavItem(kind, path, content_type, content, origin) ==
    [type |-> "Item", kind |-> kind, path |-> path,
     content_type |-> content_type, content |-> content, origin |-> origin]

Blob(bytes) == [tag |-> "Blob", blob |-> bytes]
Redirect(urls) == [tag |-> "Redirect", redir |-> urls]
Missing == [tag |-> "Missing"]

dandiset_index == DavCollection("dandiset_index", <<"dandisets">>, <<>>)
zarr_index == DavCollection("zarr_index", <<"zarrs">>, <<>>)
root == DavCollection("root", <<>>, <<>>)

\* DavCollection::dandiset_releases(dandiset_id)
dandiset_releases(dandiset_id) ==
    DavCollection("releases", <<"dandisets", dandiset_id, "releases">>, <<>>)

\* DavCollection::from(Dandiset)
collection_from_dandiset(ds) ==
    DavCollection("dandiset", <<"dandisets", ds.identifier>>, ds)

\* DavCollection::dandiset_version(v, path)
dandiset_version(v, path) == DavCollection("version", path, v)

\* DavItem::from(VersionMetadata): the synthetic dandiset.yaml file
item_from_metadata(md) ==
    DavItem("dandiset.yaml", <<"dandiset.yaml">>, "text/yaml", Blob(md), md)

\* DavResource::from(DandiResource): a folder is a collection, an asset an item
resource_from_dandi(res) ==
    IF res.kind = "Folder"
    THEN DavCollection("folder", res.path, res)
    ELSE DavItem("asset", res.path, "application/octet-stream",
                 res.content, res)

\* DavResourceWithChildren
CollectionWithChildren(col, children) ==
    [type |-> "Collection", col |-> col, children |-> children]
ItemWithChildren(item) == [type |-> "Item", item |-> item]

\* DavResourceWithChildren::root()
root_with_children ==
    CollectionWithChildren(root, <<dandiset_index, zarr_index>>)

\* DavResourceWithChildren::from(DandiResourceWithChildren)
with_children_from_dandi(rc) ==
    IF rc.res.kind = "Folder"
    THEN CollectionWithChildren(resource_from_dandi(rc.res),
            [i \in 1..Len(rc.children) |-> resource_from_dandi(rc.children[i])])
    ELSE ItemWithChildren(resource_from_dandi(rc.res))

\* DavResourceWithChildren::into_vec: [self] ++ children
into_vec(rc) ==
    IF rc.type = "Collection" THEN <<rc.col>> \o rc.children ELSE <<rc.item>>

\* DavResource::under_version_path: the address prefixed by the version's
under_version_path(res, dandiset_id, version_spec) ==
    [res EXCEPT !.path = version_path(dandiset_id, version_spec) \o @]

\* DavResourceWithChildren::under_version_path: self and every child
with_children_under_version_path(rc, dandiset_id, version_spec) ==
    IF rc.type = "Collection"
    THEN CollectionWithChildren(
            under_version_path(rc.col, dandiset_id, version_spec),
            [i \in 1..Len(rc.children) |->
                under_version_path(rc.children[i], dandiset_id, version_spec)])
    ELSE ItemWithChildren(under_version_path(rc.item, dandiset_id, version_spec))

\* -------------------------------------------------------------- DavError
DandiError(not_found) == [kind |-> "Dandi", not_found |-> not_found]
ZarrManError(not_found) == [kind |-> "ZarrMan", not_found |-> not_found]
NoLatestVersion(dandiset_id) ==
    [kind |-> "NoLatestVersion", dandiset_id |-> dandiset_id]
TemplateError == [kind |-> "Template"]
ToXmlError == [kind |-> "Xml"]

\* Mutant of is_404: only the backends' errors can be not-found.
is_404_backend_only(e) ==
    CASE e.kind = "Dandi" -> e.not_found
      [] e.kind = "ZarrMan" -> e.not_found
      [] OTHER -> FALSE

\* DavError::is_404
is_404(e) ==
    CASE e.kind = "Dandi" -> e.not_found
      [] e.kind = "ZarrMan" -> e.not_found
      [] e.kind = "NoLatestVersion" -> TRUE
      [] OTHER -> FALSE

\* ------------------------------------------------------------- responses
Response(status, headers, body) ==
    [status |-> status, headers |-> headers, body |-> body]

\* StatusCode::into_response
StatusResponse(status) == Response(status, {}, <<>>)

not_found == Response(404, {}, <<"404">>)

\* Mutant of handle_request: the fixed headers are added to a response that
\* inner_handle_request returned, but not to one made from an error.
handle_request_headers_on_ok(res) ==
    IF res.ok THEN [res.val EXCEPT !.headers = @ \cup WEBDAV_RESPONSE_HEADERS]
    ELSE IF is_404(res.err) THEN not_found
    ELSE Response(500, {}, <<"error", res.err>>)

\* handle_request, after inner_handle_request has returned res: an error
\* becomes a 404 or a 500, and every response gets WEBDAV_RESPONSE_HEADERS.
handle_request(res) ==
    LET resp == IF res.ok THEN res.val
                ELSE IF is_404(res.err) THEN not_found
                ELSE Response(500, {}, <<"error", res.err>>)
    IN  [resp EXCEPT !.headers = @ \cup WEBDAV_RESPONSE_HEADERS]

\* ------------------------------------------------------------------ state
VARIABLES
    backend,    \* what the Archive holds (read-only while requests run)
    prefer_s3_redirects,    \* DandiDav::prefer_s3_redirects
    task,       \* per request: the handler's position and local values
    dirpath     \* a PureDirPath under construction and use (SpecPath, SpecOps)

vars == <<backend, prefer_s3_redirects, task, dirpath>>

Reqs == DOMAIN task

\* ---------------------------------------------------- the Archive (dandi)
\* dandi::DandisetVersion of one version of one Dandiset
DandisetVersion(id, vid) == [dandiset_id |-> id, version |-> vid]

\* The Published versions of a version history, in its order.
RECURSIVE published_of(_)
published_of(history) ==
    IF history = <<>> THEN <<>>
    ELSE IF Head(history).tag = "Published"
        THEN <<Head(history)>> \o published_of(Tail(history))
    ELSE published_of(Tail(history))

\* DandisetEndpoint::get: dandi::Dandiset.  The Archive is consistent: the
\* most recently published version is the last Published one of the history.
backend_dandiset(id) ==
    LET published == published_of(backend.versions)
    IN  [identifier |-> id,
         draft_version |-> DandisetVersion(id, Draft),
         most_recent_published_version |->
            IF published # <<>>
            THEN Some(DandisetVersion(id, published[Len(published)]))
            ELSE None]

\* DandiClient::get_all_dandisets: the lazy sequence of all Dandisets
backend_all_dandisets == <<backend_dandiset("000001"), backend_dandiset("000002")>>

\* DandisetEndpoint::get_all_versions: the lazy sequence of a Dandiset's versions
backend_all_versions(id) ==
    [i \in 1..Len(backend.versions) |-> DandisetVersion(id, backend.versions[i])]

\* VersionEndpoint::get_metadata: dandi::VersionMetadata
backend_metadata(id, vid) == [metadata_of |-> DandisetVersion(id, vid)]

\* dandi::DandiResource: a folder or an asset of a version's file tree
Folder(id, vid, p) ==
    [kind |-> "Folder", path |-> p, dandiset_id |-> id, version |-> vid]
Asset(id, vid, p) ==
    [kind |-> "Asset", path |-> p, dandiset_id |-> id, version |-> vid,
     content |-> IF p = <<"gone.nwb">> THEN Missing
                 ELSE Redirect([s3 |-> <<"s3", id, vid, p>>,
                                archive |-> <<"archive", id, vid, p>>])]

\* The i-th entry at the root of a version's file tree.
root_entry(id, vid, i) ==
    IF i = 1 THEN Folder(id, vid, <<"sub-01">>)
    ELSE IF i = 2 THEN Asset(id, vid, <<"a.nwb">>)
    ELSE Asset(id, vid, <<ToString(i)>>)

\* VersionEndpoint::get_root_children: the lazy sequence of the root's entries
backend_root_children(id, vid) ==
    [i \in 1..backend.nroot |-> root_entry(id, vid, i)]

\* VersionEndpoint::get_resource
backend_resource(id, vid, p) ==
    IF p = <<"sub-01">> THEN Ok(Folder(id, vid, p))
    ELSE IF p \in {<<"a.nwb">>, <<"gone.nwb">>, <<"sub-01", "sub-01.nwb">>}
        THEN Ok(Asset(id, vid, p))
    ELSE Err(DandiError(TRUE))

\* VersionEndpoint::get_resource_with_children
backend_resource_with_children(id, vid, p) ==
    LET res == backend_resource(id, vid, p)
    IN  IF ~res.ok THEN res
        ELSE Ok([res |-> res.val,
                 children |-> IF p = <<"sub-01">>
                              THEN <<Asset(id, vid, <<"sub-01", "sub-01.nwb">>)>>
                              ELSE <<>>])

\* ------------------------------------------- the manifest store (zarrman)
\* DavResource::from(ZarrManResource) of a directory of manifests
zarr_dir(p) == DavCollection("zarr", <<"zarrs">> \o p, <<>>)

\* ZarrManClient::get_top_level_dirs
zarrman_top_level_dirs == << zarr_dir(<<"a.zarr">>) >>

\* ZarrManClient::get_resource
zarrman_resource(p) ==
    IF p = <<"a.zarr">> THEN Ok(zarr_dir(p)) ELSE Err(ZarrManError(TRUE))

\* ZarrManClient::get_resource_with_children
zarrman_resource_with_children(p) ==
    IF p = <<"a.zarr">> THEN Ok(CollectionWithChildren(zarr_dir(p), <<>>))
    ELSE Err(ZarrManError(TRUE))

\* What a call can return: what the backend holds, or a failure of the call.
Outcomes(natural, kind) ==
    {natural} \cup {Err([kind |-> kind, not_found |-> nf]) : nf \in BOOLEAN}

\* ---------------------------------------------------------------- requests
Methods == {"GET", "OPTIONS", "PROPFIND", "propfind", "DELETE", "HEAD", "get"}

UriPaths ==
    { <<>>,
      <<"dandisets">>,
      <<"dandisets", "000001">>,
      <<"dandisets", "000001", "releases">>,
      <<"dandisets", "000002", "releases">>,
      <<"dandisets", "000001", "draft">>,
      <<"dandisets", "000001", "latest">>,
      <<"dandisets", "000002", "latest">>,
      <<"dandisets", "000001", "0.210812.1448">>,
      <<"dandisets", "000001", "latest", "dandiset.yaml">>,
      <<"dandisets", "000001", "0.210812.1448", "dandiset.yaml">>,
      <<"dandisets", "000001", "latest", "sub-01">>,
      <<"dandisets", "000001", "0.210812.1448", "sub-01">>,
      <<"dandisets", "000001", "draft", "sub-01", "sub-01.nwb">>,
      <<"dandisets", "000001", "draft", "gone.nwb">>,
      <<"dandisets", "000001", "draft", "nothing">>,
      <<"zarrs">>,
      <<"zarrs", "a.zarr">>,
      <<"zarrs", "nothing">>,
      <<"dandisets", "000001", "releases", "0.210812.1448">>,
      <<"dandisets", "1">>,
      <<"dandisets", "000001", "..">>,
      <<"other">> }

DepthHeaders == {"0", "1", "infinity", "absent"}
Bodies == {"empty", "propname", "malformed"}

\* str::to_ascii_uppercase on the method names
to_ascii_uppercase(m) ==
    CASE m = "propfind" -> "PROPFIND"
      [] m = "get" -> "GET"
      [] OTHER -> m

\* Mutant of eq_ignore_ascii_case: the method is compared as it is written.
eq_case_sensitive(a, b) == a = b

\* m.as_str().eq_ignore_ascii_case("PROPFIND")
eq_ignore_ascii_case(a, b) == to_ascii_uppercase(a) = to_ascii_uppercase(b)

Request(method, uri, depth, body) ==
    [method |-> method, uri |-> uri, depth |-> depth, body |-> body]

\* Only a PROPFIND is sent with a Depth header and a body.
Requests ==
    {Request(m, u, "absent", "empty") : m \in Methods, u \in UriPaths}
    \cup {Request(m, u, d, b) :
            m \in {"PROPFIND", "propfind"}, u \in UriPaths,
            d \in DepthHeaders, b \in Bodies}

\* ------------------------------------------------------------------- Init
NoRequest == Request("", <<>>, "absent", "empty")
NoVersion == [tag |-> "None"]
NoPath == [tag |-> "None"]
NoHandler == [dandiset_id |-> "", version_spec |-> NoVersion, endpoint |-> NoVersion]
NoResponse == Response(0, {}, <<>>)

Idle ==
    [pc |-> "idle", req |-> NoRequest, path |-> NoPath, entry |-> "",
     handler |-> NoHandler, col |-> None, children |-> <<>>, stream |-> <<>>,
     result |-> None, calls |-> <<>>, returned |-> None,
     response |-> NoResponse]

\* The version histories the Archive may serve.
VersionHistories ==
    UNION {[1..n -> VersionIds] : n \in 0..MaxVersions}

Backends == [versions : VersionHistories, nroot : 0..MaxChildren]

\* No directory path is in play while requests are handled.
NoDirPath ==
    [pc |-> "none", s |-> <<>>, parsed |-> None, x |-> None, out |-> None,
     n |-> 0]

Init ==
    /\ backend \in Backends
    /\ prefer_s3_redirects \in BOOLEAN
    /\ task = [r \in {1} |-> Idle]
    /\ dirpath = NoDirPath

\* ---------------------------------------------------------- task helpers
\* inner_handle_request returns res and handle_request completes the response.
Reply(t, res) ==
    [t EXCEPT !.pc = "done", !.returned = res, !.response = handle_request(res)]

\* get_resource / get_resource_with_children returns res to get or propfind.
\* The locals of the resolution are dropped with it.
Resolved(t, res) ==
    [t EXCEPT !.pc = "respond", !.result = res, !.handler = NoHandler,
              !.col = None, !.children = <<>>, !.stream = <<>>]

\* A backend call is recorded when it is made, whatever it returns.
Called(t, op, id, vid, out) ==
    [t EXCEPT !.calls = Append(@, [op |-> op, dandiset_id |-> id,
                                   version |-> vid, ok |-> out.ok,
                                   err |-> IF out.ok THEN None
                                           ELSE Some(out.err)])]

\* struct VersionHandler
VersionHandler(dandiset_id, version_spec, endpoint) ==
    [dandiset_id |-> dandiset_id, version_spec |-> version_spec,
     endpoint |-> endpoint]

\* Mutant of get_version_handler: without a published version, Latest falls
\* back to the draft.
get_version_handler_draft_fallback(dandiset_id, version_spec, ds) ==
    CASE version_spec.tag = "Draft" ->
            Ok(VersionHandler(dandiset_id, version_spec, Draft))
      [] version_spec.tag = "Published" ->
            Ok(VersionHandler(dandiset_id, version_spec, Published(version_spec.v)))
      [] version_spec.tag = "Latest" ->
            IF ds.most_recent_published_version.some
            THEN Ok(VersionHandler(dandiset_id, version_spec,
                                   ds.most_recent_published_version.val.version))
            ELSE Ok(VersionHandler(dandiset_id, version_spec, Draft))

\* Mutant of get_version_handler: Latest is served by the draft's endpoint.
get_version_handler_latest_is_draft(dandiset_id, version_spec, ds) ==
    CASE version_spec.tag = "Draft" ->
            Ok(VersionHandler(dandiset_id, version_spec, Draft))
      [] version_spec.tag = "Published" ->
            Ok(VersionHandler(dandiset_id, version_spec, Published(version_spec.v)))
      [] version_spec.tag = "Latest" ->
            IF ds.most_recent_published_version.some
            THEN Ok(VersionHandler(dandiset_id, version_spec,
                                   ds.draft_version.version))
            ELSE Err(NoLatestVersion(dandiset_id))

\* get_version_handler; ds is what d.get() returned, read for Latest only
get_version_handler(dandiset_id, version_spec, ds) ==
    CASE version_spec.tag = "Draft" ->
            Ok(VersionHandler(dandiset_id, version_spec, Draft))
      [] version_spec.tag = "Published" ->
            Ok(VersionHandler(dandiset_id, version_spec, Published(version_spec.v)))
      [] version_spec.tag = "Latest" ->
            IF ds.most_recent_published_version.some
            THEN Ok(VersionHandler(dandiset_id, version_spec,
                                   ds.most_recent_published_version.val.version))
            ELSE Err(NoLatestVersion(dandiset_id))

\* The call that follows get_version_handler, by address and entry point.
after_version_handler(t) ==
    CASE t.path.tag = "Version" -> "version.get"
      [] t.path.tag = "DandisetYaml" -> "version.get_metadata"
      [] t.path.tag = "DandiResource" /\ t.entry = "get_resource" ->
            "version.get_resource"
      [] t.path.tag = "DandiResource" /\ t.entry = "get_resource_with_children" ->
            "version.get_resource_with_children"

\* get_version_handler's result h reaches its caller through `?`.
with_version_handler(t, h) ==
    IF h.ok THEN [t EXCEPT !.handler = h.val, !.pc = after_version_handler(t)]
    ELSE Resolved(t, h)

\* get_version_handler up to d.get(): only Latest needs the Dandiset.
enter_version_handler(t) ==
    IF t.path.version.tag = "Latest" THEN [t EXCEPT !.pc = "dandiset.get"]
    ELSE with_version_handler(t,
            get_version_handler(t.path.dandiset_id, t.path.version, None))

\* FiniteDepth extractor: the Depth header must be exactly 0 or 1.
extract_depth(depth) ==
    IF depth = "0" THEN Ok("Zero")
    ELSE IF depth = "1" THEN Ok("One")
    ELSE Err(Response(400, {}, <<"Depth">>))

\* PropFind extractor: an empty body is an allprop query.
extract_propfind(body) ==
    IF body = "empty" THEN Ok("allprop")
    ELSE IF body = "malformed" THEN Err(Response(400, {}, <<"body">>))
    ELSE Ok(body)

\* req.extract::<(FiniteDepth, PropFind), _>(): the first rejection wins
extract_request(req) ==
    IF ~extract_depth(req.depth).ok THEN extract_depth(req.depth)
    ELSE IF ~extract_propfind(req.body).ok THEN extract_propfind(req.body)
    ELSE Ok([depth |-> extract_depth(req.depth).val,
             query |-> extract_propfind(req.body).val])

\* ---------------------------------------------------------------- actions
\* A request arrives.
receive(r) ==
    /\ task[r].pc = "idle"
    /\ \E q \in Requests :
        task' = [task EXCEPT ![r] = [Idle EXCEPT !.pc = "dispatch", !.req = q]]
    /\ UNCHANGED <<backend, prefer_s3_redirects, dirpath>>

\* Mutant of dispatch: a PROPFIND has its Depth and body checked before its path.
dispatch_extract_first(t) ==
    LET parts == split_uri_path(t.req.uri)
        path == IF parts.some THEN from_components(parts.val) ELSE None
    IN  IF t.req.method = "GET" THEN
            IF ~path.some THEN Reply(t, Ok(not_found))
            ELSE [t EXCEPT !.pc = "resolve", !.path = path.val,
                           !.entry = "get_resource_with_children"]
        ELSE IF t.req.method = "OPTIONS" THEN Reply(t, Ok(StatusResponse(204)))
        ELSE IF eq_ignore_ascii_case(t.req.method, "PROPFIND") THEN
            IF ~extract_request(t.req).ok
            THEN Reply(t, Ok(extract_request(t.req).err))
            ELSE IF ~path.some THEN Reply(t, Ok(not_found))
            ELSE [t EXCEPT !.pc = "extract", !.path = path.val]
        ELSE Reply(t, Ok(StatusResponse(405)))

\* inner_handle_request: the verb dispatch and the parsing of the path.
dispatch(t) ==
    LET parts == split_uri_path(t.req.uri)
        path == IF parts.some THEN from_components(parts.val) ELSE None
    IN  IF t.req.method = "GET" THEN
            IF ~path.some THEN Reply(t, Ok(not_found))
            ELSE [t EXCEPT !.pc = "resolve", !.path = path.val,
                           !.entry = "get_resource_with_children"]
        ELSE IF t.req.method = "OPTIONS" THEN Reply(t, Ok(StatusResponse(204)))
        ELSE IF eq_ignore_ascii_case(t.req.method, "PROPFIND") THEN
            IF ~path.some THEN Reply(t, Ok(not_found))
            ELSE [t EXCEPT !.pc = "extract", !.path = path.val]
        ELSE Reply(t, Ok(StatusResponse(405)))

inner_handle_request(r) ==
    /\ task[r].pc = "dispatch"
    /\ task' = [task EXCEPT ![r] = dispatch(task[r])]
    /\ UNCHANGED <<backend, prefer_s3_redirects, dirpath>>

\* inner_handle_request after req.extract(): a rejection is the response,
\* otherwise propfind picks the entry point by depth.
extracted(t) ==
    LET x == extract_request(t.req)
    IN  IF ~x.ok THEN Reply(t, Ok(x.err))
        ELSE [t EXCEPT !.pc = "resolve",
                       !.entry = IF x.val.depth = "Zero" THEN "get_resource"
                                 ELSE "get_resource_with_children"]

extract(r) ==
    /\ task[r].pc = "extract"
    /\ task' = [task EXCEPT ![r] = extracted(task[r])]
    /\ UNCHANGED <<backend, prefer_s3_redirects, dirpath>>

\* Mutant of get_resource_match: the releases of a Dandiset are looked up
\* before its releases collection is described.
get_resource_match_releases_looked_up(t) ==
    CASE t.path.tag = "Root" -> Resolved(t, Ok(root))
      [] t.path.tag = "DandisetIndex" -> Resolved(t, Ok(dandiset_index))
      [] t.path.tag = "Dandiset" -> [t EXCEPT !.pc = "dandiset.get"]
      [] t.path.tag = "DandisetReleases" ->
            [t EXCEPT !.pc = "dandiset.get_all_versions",
                      !.col = Some(dandiset_releases(t.path.dandiset_id)),
                      !.stream = backend_all_versions(t.path.dandiset_id)]
      [] t.path.tag \in VersionedTags -> enter_version_handler(t)
      [] t.path.tag = "ZarrIndex" -> Resolved(t, Ok(zarr_index))
      [] t.path.tag = "ZarrPath" -> [t EXCEPT !.pc = "zarrman.get_resource"]

\* get_resource: the match on the address, up to its first backend call.
get_resource_match(t) ==
    CASE t.path.tag = "Root" -> Resolved(t, Ok(root))
      [] t.path.tag = "DandisetIndex" -> Resolved(t, Ok(dandiset_index))
      [] t.path.tag = "Dandiset" -> [t EXCEPT !.pc = "dandiset.get"]
      [] t.path.tag = "DandisetReleases" ->
            Resolved(t, Ok(dandiset_releases(t.path.dandiset_id)))
      [] t.path.tag \in VersionedTags -> enter_version_handler(t)
      [] t.path.tag = "ZarrIndex" -> Resolved(t, Ok(zarr_index))
      [] t.path.tag = "ZarrPath" -> [t EXCEPT !.pc = "zarrman.get_resource"]

get_resource(r) ==
    /\ task[r].pc = "resolve"
    /\ task[r].entry = "get_resource"
    /\ task' = [task EXCEPT ![r] = get_resource_match(task[r])]
    /\ UNCHANGED <<backend, prefer_s3_redirects, dirpath>>

\* get_resource_with_children: the match on the address, up to its first
\* backend call; a lazy sequence is created here and polled afterwards.
get_resource_with_children_match(t) ==
    CASE t.path.tag = "Root" -> Resolved(t, Ok(root_with_children))
      [] t.path.tag = "DandisetIndex" ->
            [t EXCEPT !.pc = "dandi.get_all_dandisets",
                      !.col = Some(dandiset_index),
                      !.stream = backend_all_dandisets]
      [] t.path.tag = "Dandiset" -> [t EXCEPT !.pc = "dandiset.get"]
      [] t.path.tag = "DandisetReleases" ->
            [t EXCEPT !.pc = "dandiset.get_all_versions",
                      !.col = Some(dandiset_releases(t.path.dandiset_id)),
                      !.stream = backend_all_versions(t.path.dandiset_id)]
      [] t.path.tag \in VersionedTags -> enter_version_handler(t)
      [] t.path.tag = "ZarrIndex" ->
            [t EXCEPT !.pc = "zarrman.get_top_level_dirs"]
      [] t.path.tag = "ZarrPath" ->
            [t EXCEPT !.pc = "zarrman.get_resource_with_children"]

get_resource_with_children(r) ==
    /\ task[r].pc = "resolve"
    /\ task[r].entry = "get_resource_with_children"
    /\ task' = [task EXCEPT ![r] = get_resource_with_children_match(task[r])]
    /\ UNCHANGED <<backend, prefer_s3_redirects, dirpath>>

\* Stream::try_next on a lazy backend sequence: the next element, or its end
try_next(stream) ==
    IF stream = <<>> THEN Ok(None) ELSE Ok(Some(Head(stream)))

\* Mutant of dandiset_with_children: the releases collection is always listed.
dandiset_with_children_always_releases(ds, dandiset_id) ==
    LET draft == dandiset_version(ds.draft_version,
                                  version_path(dandiset_id, Draft))
        children ==
            IF ds.most_recent_published_version.some
            THEN << draft,
                    dandiset_version(ds.most_recent_published_version.val,
                                     version_path(dandiset_id, Latest)),
                    dandiset_releases(dandiset_id) >>
            ELSE << draft, dandiset_releases(dandiset_id) >>
        col == collection_from_dandiset(
                    [ds EXCEPT !.most_recent_published_version = None])
    IN  CollectionWithChildren(col, children)

\* get_resource_with_children on Dandiset{id}, after the Dandiset is fetched
dandiset_with_children(ds, dandiset_id) ==
    LET draft == dandiset_version(ds.draft_version,
                                  version_path(dandiset_id, Draft))
        children ==
            IF ds.most_recent_published_version.some
            THEN << draft,
                    dandiset_version(ds.most_recent_published_version.val,
                                     version_path(dandiset_id, Latest)),
                    dandiset_releases(dandiset_id) >>
            ELSE << draft >>
        col == collection_from_dandiset(
                    [ds EXCEPT !.most_recent_published_version = None])
    IN  CollectionWithChildren(col, children)

\* DandisetEndpoint::get returned out: to get_resource or
\* get_resource_with_children on Dandiset{id}, or to get_version_handler.
after_dandiset_get(t, out) ==
    IF ~out.ok THEN Resolved(t, out)
    ELSE IF t.path.tag = "Dandiset" THEN
        IF t.entry = "get_resource"
        THEN Resolved(t, Ok(collection_from_dandiset(out.val)))
        ELSE Resolved(t, Ok(dandiset_with_children(out.val, t.path.dandiset_id)))
    ELSE with_version_handler(t,
            get_version_handler(t.path.dandiset_id, t.path.version, out.val))

\* Mutant of dandiset_get: the handler keeps the Dandisets that requests have
\* fetched, and a request finds there what another one has fetched.
dandiset_get_shared(r) ==
    /\ task[r].pc = "dandiset.get"
    /\ IF \E o \in Reqs \ {r} : \E i \in 1..Len(task[o].calls) :
                /\ task[o].calls[i].op = "dandiset.get"
                /\ task[o].calls[i].dandiset_id = task[r].path.dandiset_id
                /\ task[o].calls[i].ok
       THEN task' = [task EXCEPT ![r] =
                after_dandiset_get(task[r],
                    Ok(backend_dandiset(task[r].path.dandiset_id)))]
       ELSE \E out \in Outcomes(Ok(backend_dandiset(task[r].path.dandiset_id)),
                                 "Dandi") :
                task' = [task EXCEPT ![r] =
                    after_dandiset_get(
                        Called(task[r], "dandiset.get", task[r].path.dandiset_id,
                               NoVersion, out),
                        out)]
    /\ UNCHANGED <<backend, prefer_s3_redirects, dirpath>>

dandiset_get(r) ==
    /\ task[r].pc = "dandiset.get"
    /\ \E out \in Outcomes(Ok(backend_dandiset(task[r].path.dandiset_id)), "Dandi") :
        task' = [task EXCEPT ![r] =
            after_dandiset_get(
                Called(task[r], "dandiset.get", task[r].path.dandiset_id, NoVersion, out),
                out)]
    /\ UNCHANGED <<backend, prefer_s3_redirects, dirpath>>

\* VersionHandler::get returned out: the version as a collection, addressed
\* by the requested spec; get_resource_with_children goes on to the listing.
after_version_get(t, out) ==
    LET h == t.handler
        col == dandiset_version(out.val, version_path(h.dandiset_id, h.version_spec))
    IN  IF ~out.ok THEN Resolved(t, out)
        ELSE IF t.entry = "get_resource" THEN Resolved(t, Ok(col))
        ELSE [t EXCEPT !.pc = "version.get_root_children",
                       !.col = Some(col),
                       !.stream = backend_root_children(h.dandiset_id, h.endpoint)]

version_get(r) ==
    /\ task[r].pc = "version.get"
    /\ LET h == task[r].handler
       IN  \E out \in Outcomes(Ok(DandisetVersion(h.dandiset_id, h.endpoint)), "Dandi") :
            task' = [task EXCEPT ![r] =
                after_version_get(
                    Called(task[r], "version.get", h.dandiset_id, h.endpoint, out), out)]
    /\ UNCHANGED <<backend, prefer_s3_redirects, dirpath>>

\* Mutant of after_root_children: an entry is put under the path of the
\* version the endpoint serves.
after_root_children_endpoint_path(t, out) ==
    LET h == t.handler
    IN  IF ~out.ok THEN Resolved(t, out)
        ELSE IF out.val.some
        THEN [t EXCEPT !.children = Append(@,
                            under_version_path(resource_from_dandi(out.val.val),
                                               h.dandiset_id, h.endpoint)),
                       !.stream = Tail(@)]
        ELSE [t EXCEPT !.pc = "version.get_metadata"]

\* Mutant of after_root_children: a failure of the sequence is taken for its
\* end, and the entries received so far are listed.
after_root_children_failure_ends_listing(t, out) ==
    LET h == t.handler
    IN  IF out.ok /\ out.val.some
        THEN [t EXCEPT !.children = Append(@,
                            under_version_path(resource_from_dandi(out.val.val),
                                               h.dandiset_id, h.version_spec)),
                       !.stream = Tail(@)]
        ELSE [t EXCEPT !.pc = "version.get_metadata"]

\* Mutant of after_root_children: an entry is put under the version path as
\* it is received and once more with the listing.
after_root_children_rewritten_twice(t, out) ==
    LET h == t.handler
    IN  IF ~out.ok THEN Resolved(t, out)
        ELSE IF out.val.some
        THEN [t EXCEPT !.children = Append(@,
                            under_version_path(
                                under_version_path(resource_from_dandi(out.val.val),
                                                   h.dandiset_id, h.version_spec),
                                h.dandiset_id, h.version_spec)),
                       !.stream = Tail(@)]
        ELSE [t EXCEPT !.pc = "version.get_metadata"]

\* VersionHandler::get_root_children polled once: an entry is converted and
\* put under the version path, the end of the sequence leads to dandiset.yaml.
after_root_children(t, out) ==
    LET h == t.handler
    IN  IF ~out.ok THEN Resolved(t, out)
        ELSE IF out.val.some
        THEN [t EXCEPT !.children = Append(@,
                            under_version_path(resource_from_dandi(out.val.val),
                                               h.dandiset_id, h.version_spec)),
                       !.stream = Tail(@)]
        ELSE [t EXCEPT !.pc = "version.get_metadata"]

get_root_children(r) ==
    /\ task[r].pc = "version.get_root_children"
    /\ LET h == task[r].handler
       IN  \E out \in Outcomes(try_next(task[r].stream), "Dandi") :
            task' = [task EXCEPT ![r] =
                after_root_children(
                    Called(task[r], "version.get_root_children",
                           h.dandiset_id, h.endpoint, out), out)]
    /\ UNCHANGED <<backend, prefer_s3_redirects, dirpath>>

\* Mutant of after_dandiset_yaml: dandiset.yaml is listed before the root
\* entries of the version.
after_dandiset_yaml_listed_first(t, out) ==
    LET h == t.handler
        item == under_version_path(item_from_metadata(out.val),
                                   h.dandiset_id, h.version_spec)
    IN  IF ~out.ok THEN Resolved(t, out)
        ELSE IF t.path.tag = "Version"
        THEN Resolved(t, Ok(CollectionWithChildren(t.col.val,
                                                   <<item>> \o t.children)))
        ELSE IF t.entry = "get_resource" THEN Resolved(t, Ok(item))
        ELSE Resolved(t, Ok(ItemWithChildren(item)))

\* VersionHandler::get_dandiset_yaml returned out: the last child of a
\* Version, or the item of a DandisetYaml address.
after_dandiset_yaml(t, out) ==
    LET h == t.handler
        item == under_version_path(item_from_metadata(out.val),
                                   h.dandiset_id, h.version_spec)
    IN  IF ~out.ok THEN Resolved(t, out)
        ELSE IF t.path.tag = "Version"
        THEN Resolved(t, Ok(CollectionWithChildren(t.col.val,
                                                   Append(t.children, item))))
        ELSE IF t.entry = "get_resource" THEN Resolved(t, Ok(item))
        ELSE Resolved(t, Ok(ItemWithChildren(item)))

get_dandiset_yaml(r) ==
    /\ task[r].pc = "version.get_metadata"
    /\ LET h == task[r].handler
       IN  \E out \in Outcomes(Ok(backend_metadata(h.dandiset_id, h.endpoint)), "Dandi") :
            task' = [task EXCEPT ![r] =
                after_dandiset_yaml(
                    Called(task[r], "version.get_metadata",
                           h.dandiset_id, h.endpoint, out), out)]
    /\ UNCHANGED <<backend, prefer_s3_redirects, dirpath>>

\* VersionHandler::get_resource
after_version_get_resource(t, out) ==
    LET h == t.handler
    IN  IF ~out.ok THEN Resolved(t, out)
        ELSE Resolved(t, Ok(under_version_path(resource_from_dandi(out.val),
                                               h.dandiset_id, h.version_spec)))

version_get_resource(r) ==
    /\ task[r].pc = "version.get_resource"
    /\ LET h == task[r].handler
       IN  \E out \in Outcomes(backend_resource(h.dandiset_id, h.endpoint,
                                               task[r].path.path), "Dandi") :
            task' = [task EXCEPT ![r] =
                after_version_get_resource(
                    Called(task[r], "version.get_resource",
                           h.dandiset_id, h.endpoint, out), out)]
    /\ UNCHANGED <<backend, prefer_s3_redirects, dirpath>>

\* VersionHandler::get_resource_with_children
after_version_get_resource_with_children(t, out) ==
    LET h == t.handler
    IN  IF ~out.ok THEN Resolved(t, out)
        ELSE Resolved(t, Ok(with_children_under_version_path(
                                with_children_from_dandi(out.val),
                                h.dandiset_id, h.version_spec)))

version_get_resource_with_children(r) ==
    /\ task[r].pc = "version.get_resource_with_children"
    /\ LET h == task[r].handler
       IN  \E out \in Outcomes(backend_resource_with_children(
                                h.dandiset_id, h.endpoint, task[r].path.path),
                              "Dandi") :
            task' = [task EXCEPT ![r] =
                after_version_get_resource_with_children(
                    Called(task[r], "version.get_resource_with_children",
                           h.dandiset_id, h.endpoint, out), out)]
    /\ UNCHANGED <<backend, prefer_s3_redirects, dirpath>>

\* get_resource_with_children on DandisetIndex: get_all_dandisets polled once
after_all_dandisets(t, out) ==
    IF ~out.ok THEN Resolved(t, out)
    ELSE IF out.val.some
    THEN [t EXCEPT !.children = Append(@, collection_from_dandiset(out.val.val)),
                   !.stream = Tail(@)]
    ELSE Resolved(t, Ok(CollectionWithChildren(t.col.val, t.children)))

get_all_dandisets(r) ==
    /\ task[r].pc = "dandi.get_all_dandisets"
    /\ \E out \in Outcomes(try_next(task[r].stream), "Dandi") :
        task' = [task EXCEPT ![r] =
            after_all_dandisets(
                Called(task[r], "dandi.get_all_dandisets", "", NoVersion, out), out)]
    /\ UNCHANGED <<backend, prefer_s3_redirects, dirpath>>

\* Mutant of after_all_versions: every version of the history becomes a child.
after_all_versions_unfiltered(t, out) ==
    LET dandiset_id == t.path.dandiset_id
        v == out.val.val
    IN  IF ~out.ok THEN Resolved(t, out)
        ELSE IF out.val.some
        THEN [t EXCEPT !.children = Append(@,
                            dandiset_version(v,
                                version_path(dandiset_id, v.version))),
                       !.stream = Tail(@)]
        ELSE Resolved(t, Ok(CollectionWithChildren(t.col.val, t.children)))

\* get_resource_with_children on DandisetReleases{id}: get_all_versions
\* polled once; only a Published version becomes a child.
after_all_versions(t, out) ==
    LET dandiset_id == t.path.dandiset_id
        v == out.val.val
    IN  IF ~out.ok THEN Resolved(t, out)
        ELSE IF out.val.some
        THEN IF v.version.tag = "Published"
             THEN [t EXCEPT !.children = Append(@,
                                dandiset_version(v,
                                    version_path(dandiset_id,
                                                 Published(v.version.v)))),
                            !.stream = Tail(@)]
             ELSE [t EXCEPT !.stream = Tail(@)]
        ELSE Resolved(t, Ok(CollectionWithChildren(t.col.val, t.children)))

get_all_versions(r) ==
    /\ task[r].pc = "dandiset.get_all_versions"
    /\ \E out \in Outcomes(try_next(task[r].stream), "Dandi") :
        task' = [task EXCEPT ![r] =
            after_all_versions(
                Called(task[r], "dandiset.get_all_versions",
                       task[r].path.dandiset_id, NoVersion, out), out)]
    /\ UNCHANGED <<backend, prefer_s3_redirects, dirpath>>

\* get_resource on ZarrPath
zarrman_get_resource(r) ==
    /\ task[r].pc = "zarrman.get_resource"
    /\ \E out \in Outcomes(zarrman_resource(task[r].path.path), "ZarrMan") :
        task' = [task EXCEPT ![r] =
            Resolved(Called(task[r], "zarrman.get_resource", "", NoVersion, out), out)]
    /\ UNCHANGED <<backend, prefer_s3_redirects, dirpath>>

\* get_resource_with_children on ZarrPath
zarrman_get_resource_with_children(r) ==
    /\ task[r].pc = "zarrman.get_resource_with_children"
    /\ \E out \in Outcomes(zarrman_resource_with_children(task[r].path.path),
                          "ZarrMan") :
        task' = [task EXCEPT ![r] =
            Resolved(Called(task[r], "zarrman.get_resource_with_children",
                            "", NoVersion, out), out)]
    /\ UNCHANGED <<backend, prefer_s3_redirects, dirpath>>

\* get_resource_with_children on ZarrIndex
zarrman_get_top_level_dirs(r) ==
    /\ task[r].pc = "zarrman.get_top_level_dirs"
    /\ \E out \in Outcomes(Ok(CollectionWithChildren(zarr_index,
                                                    zarrman_top_level_dirs)),
                          "ZarrMan") :
        task' = [task EXCEPT ![r] =
            Resolved(Called(task[r], "zarrman.get_top_level_dirs", "", NoVersion, out),
                     out)]
    /\ UNCHANGED <<backend, prefer_s3_redirects, dirpath>>

\* ------------------------------------------------------- get and propfind
HTML_CONTENT_TYPE == "text/html; charset=utf-8"
DAV_XML_CONTENT_TYPE == "application/xml; charset=utf-8"

\* RedirectContent::get_url
get_url(redir, prefer_s3) == IF prefer_s3 THEN redir.s3 ELSE redir.archive

\* Mutant of get_response: a redirect always goes to the Archive's URL.
get_response_archive_url(t, rendered) ==
    LET rc == t.result.val
    IN  IF ~t.result.ok THEN t.result
        ELSE IF rc.type = "Collection" THEN
            IF rendered
            THEN Ok(Response(200, {<<"Content-Type", HTML_CONTENT_TYPE>>},
                             [html |-> rc.children, pathparts |-> t.req.uri]))
            ELSE Err(TemplateError)
        ELSE IF rc.item.content.tag = "Blob"
            THEN Ok(Response(200, {<<"Content-Type", rc.item.content_type>>},
                             rc.item.content.blob))
        ELSE IF rc.item.content.tag = "Redirect"
            THEN Ok(Response(307,
                    {<<"Location", get_url(rc.item.content.redir, FALSE)>>}, <<>>))
        ELSE Ok(not_found)

\* get, after get_resource_with_children has returned; rendered is what the
\* templater returns for a collection.
get_response(t, rendered) ==
    LET rc == t.result.val
    IN  IF ~t.result.ok THEN t.result
        ELSE IF rc.type = "Collection" THEN
            IF rendered
            THEN Ok(Response(200, {<<"Content-Type", HTML_CONTENT_TYPE>>},
                             [html |-> rc.children, pathparts |-> t.req.uri]))
            ELSE Err(TemplateError)
        ELSE IF rc.item.content.tag = "Blob"
            THEN Ok(Response(200, {<<"Content-Type", rc.item.content_type>>},
                             rc.item.content.blob))
        ELSE IF rc.item.content.tag = "Redirect"
            THEN Ok(Response(307,
                    {<<"Location", get_url(rc.item.content.redir,
                                           prefer_s3_redirects)>>}, <<>>))
        ELSE Ok(not_found)

get(r) ==
    /\ task[r].pc = "respond"
    /\ task[r].req.method = "GET"
    /\ \E rendered \in BOOLEAN :
        task' = [task EXCEPT ![r] = Reply(task[r], get_response(task[r], rendered))]
    /\ UNCHANGED <<backend, prefer_s3_redirects, dirpath>>

\* PropFind::find: the <response> element of one resource
find(query, res) == [href |-> res.path, query |-> query, resource |-> res]

\* Mutant of propfind_response: Depth 1 reports the children without self.
propfind_response_children_only(t, serialized) ==
    LET x == extract_request(t.req).val
        resources == IF x.depth = "Zero" THEN <<t.result.val>>
                     ELSE Tail(into_vec(t.result.val))
        response == [i \in 1..Len(resources) |-> find(x.query, resources[i])]
    IN  IF ~t.result.ok THEN t.result
        ELSE IF serialized
        THEN Ok(Response(207, {<<"Content-Type", DAV_XML_CONTENT_TYPE>>},
                         [multistatus |-> response]))
        ELSE Err(ToXmlError)

\* Mutant of propfind_response: an item with Missing content is answered 404.
propfind_response_missing_404(t, serialized) ==
    LET x == extract_request(t.req).val
        resources == IF x.depth = "Zero" THEN <<t.result.val>>
                     ELSE into_vec(t.result.val)
        response == [i \in 1..Len(resources) |-> find(x.query, resources[i])]
    IN  IF ~t.result.ok THEN t.result
        ELSE IF /\ resources[1].type = "Item"
                /\ resources[1].content = Missing
        THEN Ok(not_found)
        ELSE IF serialized
        THEN Ok(Response(207, {<<"Content-Type", DAV_XML_CONTENT_TYPE>>},
                         [multistatus |-> response]))
        ELSE Err(ToXmlError)

\* propfind, after the resolution has returned; serialized is whether
\* Multistatus::to_xml succeeds.
propfind_response(t, serialized) ==
    LET x == extract_request(t.req).val
        resources == IF x.depth = "Zero" THEN <<t.result.val>>
                     ELSE into_vec(t.result.val)
        response == [i \in 1..Len(resources) |-> find(x.query, resources[i])]
    IN  IF ~t.result.ok THEN t.result
        ELSE IF serialized
        THEN Ok(Response(207, {<<"Content-Type", DAV_XML_CONTENT_TYPE>>},
                         [multistatus |-> response]))
        ELSE Err(ToXmlError)

propfind(r) ==
    /\ task[r].pc = "respond"
    /\ task[r].req.method # "GET"
    /\ \E serialized \in BOOLEAN :
        task' = [task EXCEPT ![r] =
                    Reply(task[r], propfind_response(task[r], serialized))]
    /\ UNCHANGED <<backend, prefer_s3_redirects, dirpath>>

\* --------------------------------------------------------- specification
Next ==
    \/ \E r \in Reqs : receive(r)
    \/ \E r \in Reqs : inner_handle_request(r)
    \/ \E r \in Reqs : extract(r)
    \/ \E r \in Reqs : get_resource(r)
    \/ \E r \in Reqs : get_resource_with_children(r)
    \/ \E r \in Reqs : dandiset_get(r)
    \/ \E r \in Reqs : version_get(r)
    \/ \E r \in Reqs : get_root_children(r)
    \/ \E r \in Reqs : get_dandiset_yaml(r)
    \/ \E r \in Reqs : version_get_resource(r)
    \/ \E r \in Reqs : version_get_resource_with_children(r)
    \/ \E r \in Reqs : get_all_dandisets(r)
    \/ \E r \in Reqs : get_all_versions(r)
    \/ \E r \in Reqs : zarrman_get_resource(r)
    \/ \E r \in Reqs : zarrman_get_resource_with_children(r)
    \/ \E r \in Reqs : zarrman_get_top_level_dirs(r)
    \/ \E r \in Reqs : get(r)
    \/ \E r \in Reqs : propfind(r)

Spec == Init /\ [][Next]_vars

\* ------------------------------------------- one address under two names
\* Two requests against the same Archive: the first names a version as
\* latest; once it is answered, the second asks the same of the version that
\* is the most recently published one, by its id.
InitPair ==
    /\ backend \in Backends
    /\ prefer_s3_redirects \in BOOLEAN
    /\ task = [r \in {1, 2} |-> Idle]
    /\ dirpath = NoDirPath

\* The GET and PROPFIND requests for an address under dandisets/{id}/latest
\* that reach the resolution.
LatestRequests ==
    {q \in Requests :
        /\ Len(q.uri) >= 3 /\ q.uri[1] = "dandisets" /\ q.uri[3] = "latest"
        /\ q.method \in {"GET", "PROPFIND"}
        /\ q.depth \in {"0", "1"} \/ q.method = "GET"
        /\ q.body # "malformed"}

\* The request q with latest replaced by the id of the version it stands for.
by_version_id(q) ==
    [q EXCEPT !.uri[3] =
        backend_dandiset(q.uri[2]).most_recent_published_version.val.version.v]

receive_latest ==
    /\ task[1].pc = "idle"
    /\ \E q \in LatestRequests :
        task' = [task EXCEPT ![1] = [Idle EXCEPT !.pc = "dispatch", !.req = q]]
    /\ UNCHANGED <<backend, prefer_s3_redirects, dirpath>>

receive_published ==
    /\ task[1].pc = "done"
    /\ task[2].pc = "idle"
    /\ backend_dandiset(task[1].req.uri[2]).most_recent_published_version.some
    /\ task' = [task EXCEPT ![2] =
                    [Idle EXCEPT !.pc = "dispatch",
                                 !.req = by_version_id(task[1].req)]]
    /\ UNCHANGED <<backend, prefer_s3_redirects, dirpath>>

NextPair ==
    \/ receive_latest
    \/ receive_published
    \/ \E r \in Reqs : inner_handle_request(r)
    \/ \E r \in Reqs : extract(r)
    \/ \E r \in Reqs : get_resource(r)
    \/ \E r \in Reqs : get_resource_with_children(r)
    \/ \E r \in Reqs : dandiset_get(r)
    \/ \E r \in Reqs : version_get(r)
    \/ \E r \in Reqs : get_root_children(r)
    \/ \E r \in Reqs : get_dandiset_yaml(r)
    \/ \E r \in Reqs : version_get_resource(r)
    \/ \E r \in Reqs : version_get_resource_with_children(r)
    \/ \E r \in Reqs : get(r)
    \/ \E r \in Reqs : propfind(r)

SpecPair == InitPair /\ [][NextPair]_vars

\* ------------------------------------------------- concurrent requests
\* What handling a request alone does next: the task records that one step
\* leads to from t, given what the handler and the backends hold.
Step(t) ==
    LET id == t.path.dandiset_id
        h == t.handler
    IN  CASE t.pc = "dispatch" -> {dispatch(t)}
          [] t.pc = "extract" -> {extracted(t)}
          [] t.pc = "resolve" ->
                IF t.entry = "get_resource" THEN {get_resource_match(t)}
                ELSE {get_resource_with_children_match(t)}
          [] t.pc = "dandiset.get" ->
                {after_dandiset_get(Called(t, "dandiset.get", id, NoVersion, out), out) :
                    out \in Outcomes(Ok(backend_dandiset(id)), "Dandi")}
          [] t.pc = "version.get" ->
                {after_version_get(
                    Called(t, "version.get", h.dandiset_id, h.endpoint, out), out) :
                    out \in Outcomes(Ok(DandisetVersion(h.dandiset_id, h.endpoint)),
                                     "Dandi")}
          [] t.pc = "version.get_root_children" ->
                {after_root_children(
                    Called(t, "version.get_root_children",
                           h.dandiset_id, h.endpoint, out), out) :
                    out \in Outcomes(try_next(t.stream), "Dandi")}
          [] t.pc = "version.get_metadata" ->
                {after_dandiset_yaml(
                    Called(t, "version.get_metadata",
                           h.dandiset_id, h.endpoint, out), out) :
                    out \in Outcomes(Ok(backend_metadata(h.dandiset_id, h.endpoint)),
                                     "Dandi")}
          [] t.pc = "version.get_resource" ->
                {after_version_get_resource(
                    Called(t, "version.get_resource",
                           h.dandiset_id, h.endpoint, out), out) :
                    out \in Outcomes(backend_resource(h.dandiset_id, h.endpoint,
                                                      t.path.path), "Dandi")}
          [] t.pc = "version.get_resource_with_children" ->
                {after_version_get_resource_with_children(
                    Called(t, "version.get_resource_with_children",
                           h.dandiset_id, h.endpoint, out), out) :
                    out \in Outcomes(backend_resource_with_children(
                                        h.dandiset_id, h.endpoint, t.path.path),
                                     "Dandi")}
          [] t.pc = "dandi.get_all_dandisets" ->
                {after_all_dandisets(
                    Called(t, "dandi.get_all_dandisets", "", NoVersion, out), out) :
                    out \in Outcomes(try_next(t.stream), "Dandi")}
          [] t.pc = "dandiset.get_all_versions" ->
                {after_all_versions(
                    Called(t, "dandiset.get_all_versions", id, NoVersion, out), out) :
                    out \in Outcomes(try_next(t.stream), "Dandi")}
          [] t.pc = "zarrman.get_resource" ->
                {Resolved(Called(t, "zarrman.get_resource", "", NoVersion, out), out) :
                    out \in Outcomes(zarrman_resource(t.path.path), "ZarrMan")}
          [] t.pc = "zarrman.get_resource_with_children" ->
                {Resolved(Called(t, "zarrman.get_resource_with_children",
                                 "", NoVersion, out), out) :
                    out \in Outcomes(zarrman_resource_with_children(t.path.path),
                                     "ZarrMan")}
          [] t.pc = "zarrman.get_top_level_dirs" ->
                {Resolved(Called(t, "zarrman.get_top_level_dirs",
                                 "", NoVersion, out), out) :
                    out \in Outcomes(Ok(CollectionWithChildren(zarr_index,
                                            zarrman_top_level_dirs)), "ZarrMan")}
          [] t.pc = "respond" ->
                IF t.req.method = "GET"
                THEN {Reply(t, get_response(t, rendered)) : rendered \in BOOLEAN}
                ELSE {Reply(t, propfind_response(t, serialized)) :
                        serialized \in BOOLEAN}
          [] OTHER -> {}

\* The requests that two clients send at the same time.
ConcRequests ==
    { Request("GET", <<"dandisets", "000001", "latest">>, "absent", "empty"),
      Request("PROPFIND", <<"dandisets", "000001", "releases">>, "1", "empty"),
      Request("PROPFIND", <<"dandisets", "000001", "latest", "dandiset.yaml">>,
              "0", "propname"),
      Request("GET", <<"dandisets", "000001", "draft", "sub-01", "sub-01.nwb">>,
              "absent", "empty") }

\* The Archive during the two requests: unpublished, or with one release.
ConcBackends ==
    {b \in Backends : b.versions \in {<<>>, <<Published("0.210812.1448")>>}}

InitConc ==
    /\ backend \in ConcBackends
    /\ prefer_s3_redirects \in BOOLEAN
    /\ task = [r \in {1, 2} |-> Idle]
    /\ dirpath = NoDirPath

\* Either request arrives at any time.
receive_concurrent(r) ==
    /\ task[r].pc = "idle"
    /\ \E q \in ConcRequests :
        task' = [task EXCEPT ![r] = [Idle EXCEPT !.pc = "dispatch", !.req = q]]
    /\ UNCHANGED <<backend, prefer_s3_redirects, dirpath>>

NextConc ==
    \/ \E r \in Reqs : receive_concurrent(r)
    \/ \E r \in Reqs : inner_handle_request(r)
    \/ \E r \in Reqs : extract(r)
    \/ \E r \in Reqs : get_resource(r)
    \/ \E r \in Reqs : get_resource_with_children(r)
    \/ \E r \in Reqs : dandiset_get(r)
    \/ \E r \in Reqs : version_get(r)
    \/ \E r \in Reqs : get_root_children(r)
    \/ \E r \in Reqs : get_dandiset_yaml(r)
    \/ \E r \in Reqs : version_get_resource_with_children(r)
    \/ \E r \in Reqs : get_all_versions(r)
    \/ \E r \in Reqs : get(r)
    \/ \E r \in Reqs : propfind(r)

SpecConc == InitConc /\ [][NextConc]_vars

\* ------------------------------------------------- paths::PureDirPath
\* A string is the sequence of its characters; NUL stands for '\0'.
NUL == "NUL"
Chars == {"a", ".", "/", NUL}
Strings == UNION {[1..n -> Chars] : n \in 0..MaxLen}

\* str::strip_suffix(char)
strip_suffix(s, c) ==
    IF s # <<>> /\ s[Len(s)] = c THEN Some(SubSeq(s, 1, Len(s) - 1)) ELSE None

\* str::starts_with(char)
starts_with(s, c) == s # <<>> /\ s[1] = c

\* str::contains(char)
contains(s, c) == \E i \in 1..Len(s) : s[i] = c

\* str::split(char): the pieces between the separators, empty ones included
RECURSIVE split(_, _)
split(s, c) ==
    IF ~contains(s, c) THEN <<s>>
    ELSE LET i == CHOOSE j \in 1..Len(s) :
                    s[j] = c /\ \A k \in 1..(j - 1) : s[k] # c
         IN  <<SubSeq(s, 1, i - 1)>> \o split(SubSeq(s, i + 1, Len(s)), c)

\* str::trim_end_matches(char)
RECURSIVE trim_end_matches(_, _)
trim_end_matches(s, c) ==
    IF s # <<>> /\ s[Len(s)] = c
    THEN trim_end_matches(SubSeq(s, 1, Len(s) - 1), c)
    ELSE s

\* str::rfind(char): the byte index, from 0, of the last occurrence
rfind(s, c) ==
    IF ~contains(s, c) THEN None
    ELSE Some((CHOOSE j \in 1..Len(s) :
                    s[j] = c /\ \A k \in (j + 1)..Len(s) : s[k] # c) - 1)

\* str::strip_prefix(&str)
strip_prefix(s, prefix) ==
    IF Len(prefix) <= Len(s) /\ SubSeq(s, 1, Len(prefix)) = prefix
    THEN Some(SubSeq(s, Len(prefix) + 1, Len(s)))
    ELSE None

\* struct PureDirPath(String) and its Display
PureDirPath(s) == [str |-> s]
to_string(p) == p.str

\* paths::Component: a non-empty string without '/' or NUL, not "." or ".."
Component(s) == [str |-> s]
Components ==
    {Component(s) : s \in
        {s \in Strings : /\ s # <<>>
                         /\ ~contains(s, "/")
                         /\ ~contains(s, NUL)
                         /\ s \notin {<<".">>, <<".", ".">>}}}

\* Mutant of from_str: a ".." segment is not looked for.
from_str_dotdot_accepted(s) ==
    LET pre == strip_suffix(s, "/")
    IN  IF ~pre.some THEN Err("NotDir")
        ELSE IF starts_with(s, "/") THEN Err("StartsWithSlash")
        ELSE IF contains(s, NUL) THEN Err("Nul")
        ELSE IF \E i \in 1..Len(split(pre.val, "/")) :
                    LET p == split(pre.val, "/")[i]
                    IN  p = <<>> \/ p = <<".">>
            THEN Err("NotNormalized")
        ELSE Ok(PureDirPath(s))

\* Mutant of from_str: NUL is looked for before anything else.
from_str_nul_first(s) ==
    LET pre == strip_suffix(s, "/")
    IN  IF contains(s, NUL) THEN Err("Nul")
        ELSE IF ~pre.some THEN Err("NotDir")
        ELSE IF starts_with(s, "/") THEN Err("StartsWithSlash")
        ELSE IF \E i \in 1..Len(split(pre.val, "/")) :
                    LET p == split(pre.val, "/")[i]
                    IN  p = <<>> \/ p = <<".">> \/ p = <<".", ".">>
            THEN Err("NotNormalized")
        ELSE Ok(PureDirPath(s))

\* impl FromStr for PureDirPath
from_str(s) ==
    LET pre == strip_suffix(s, "/")
    IN  IF ~pre.some THEN Err("NotDir")
        ELSE IF starts_with(s, "/") THEN Err("StartsWithSlash")
        ELSE IF contains(s, NUL) THEN Err("Nul")
        ELSE IF \E i \in 1..Len(split(pre.val, "/")) :
                    LET p == split(pre.val, "/")[i]
                    IN  p = <<>> \/ p = <<".">> \/ p = <<".", ".">>
            THEN Err("NotNormalized")
        ELSE Ok(PureDirPath(s))

\* PureDirPath::name_str and PureDirPath::name
name_str(p) ==
    LET pieces == split(trim_end_matches(p.str, "/"), "/")
    IN  pieces[Len(pieces)]
name(p) == Component(name_str(p))

\* Mutant of parent: the last '/' is looked for without trimming the path.
parent_untrimmed(p) ==
    LET i == rfind(p.str, "/")
    IN  IF ~i.some THEN None
        ELSE Some(PureDirPath(SubSeq(p.str, 1, i.val + 1)))

\* PureDirPath::parent
parent(p) ==
    LET i == rfind(trim_end_matches(p.str, "/"), "/")
    IN  IF ~i.some THEN None
        ELSE Some(PureDirPath(SubSeq(p.str, 1, i.val + 1)))

\* PureDirPath::join_dir
join_dir(p, path) == PureDirPath(p.str \o path.str)

\* PureDirPath::join_one_dir
join_one_dir(p, c) == PureDirPath(p.str \o c.str \o <<"/">>)

\* Mutant of relative_to: the remainder is returned even when it is empty.
relative_to_empty_suffix(p, dir) ==
    LET s == strip_prefix(p.str, dir.str)
    IN  IF ~s.some THEN None
        ELSE Some(PureDirPath(s.val))

\* PureDirPath::relative_to
relative_to(p, dir) ==
    LET s == strip_prefix(p.str, dir.str)
    IN  IF ~s.some THEN None
        ELSE IF s.val # <<>> THEN Some(PureDirPath(s.val)) ELSE None

\* The PureDirPaths that parsing yields within the bound.
DirPaths == {from_str(s).val : s \in {s \in Strings : from_str(s).ok}}

\* A string is parsed, and the path it yields is operated on.
InitPath ==
    /\ backend = [versions |-> <<>>, nroot |-> 0]
    /\ prefer_s3_redirects = FALSE
    /\ task = <<>>
    /\ \E s \in Strings :
        dirpath = [NoDirPath EXCEPT !.pc = "input", !.s = s]

\* s.parse::<PureDirPath>()
parse ==
    /\ dirpath.pc = "input"
    /\ dirpath' = [dirpath EXCEPT !.pc = "parsed",
                                  !.parsed = Some(from_str(dirpath.s))]
    /\ UNCHANGED <<backend, prefer_s3_redirects, task>>

\* p.parent()
take_parent ==
    /\ dirpath.pc = "parsed"
    /\ dirpath.parsed.val.ok
    /\ dirpath' = [dirpath EXCEPT !.pc = "parent",
                                  !.out = parent(dirpath.parsed.val.val)]
    /\ UNCHANGED <<backend, prefer_s3_redirects, task>>

\* p.relative_to(&x)
take_relative_to ==
    /\ dirpath.pc = "parsed"
    /\ dirpath.parsed.val.ok
    /\ \E x \in DirPaths :
        dirpath' = [dirpath EXCEPT !.pc = "relative_to",
                                   !.x = Some(x),
                                   !.out = relative_to(dirpath.parsed.val.val, x)]
    /\ UNCHANGED <<backend, prefer_s3_redirects, task>>

NextPath ==
    \/ parse
    \/ take_parent
    \/ take_relative_to

SpecPath == InitPath /\ [][NextPath]_vars

\* ------------------------------------- operations on a PureDirPath value
\* paths::PurePath: a tuple struct around a String, as PureDirPath is
PurePath(s) == [str |-> s]

\* PureDirPath::join
join(p, path) == PurePath(p.str \o path.str)

\* Mutant of push: the trailing '/' is not appended.
push_without_slash(p, c) == PureDirPath(p.str \o c.str)

\* PureDirPath::push: the value of self after the call
push(p, c) == PureDirPath((p.str \o c.str) \o <<"/">>)

\* impl From<Component> for PureDirPath
from(value) == PureDirPath(value.str \o <<"/">>)

\* A value is obtained by parsing a string or by converting a Component;
\* `n` counts the operations applied since.
InitOps ==
    /\ backend = [versions |-> <<>>, nroot |-> 0]
    /\ prefer_s3_redirects = FALSE
    /\ task = <<>>
    /\ \E s \in Strings :
        \/ /\ from_str(s).ok
           /\ dirpath = [NoDirPath EXCEPT !.pc = "from_str", !.s = s,
                                          !.parsed = Some(from_str(s)),
                                          !.out = Some(from_str(s).val)]
        \/ /\ Component(s) \in Components
           /\ dirpath = [NoDirPath EXCEPT !.pc = "from", !.s = s,
                                          !.out = Some(from(Component(s)))]

\* p.push(&c): p is the value the last operation yielded
apply_push ==
    /\ dirpath.pc # "join" /\ dirpath.out # None /\ dirpath.n < MaxOps
    /\ \E c \in Components :
        /\ Len(push(dirpath.out.val, c).str) <= MaxLen
        /\ dirpath' = [NoDirPath EXCEPT !.pc = "push", !.x = Some(c),
                                        !.out = Some(push(dirpath.out.val, c)),
                                        !.n = dirpath.n + 1]
    /\ UNCHANGED <<backend, prefer_s3_redirects, task>>

\* p.join_one_dir(&c)
apply_join_one_dir ==
    /\ dirpath.pc # "join" /\ dirpath.out # None /\ dirpath.n < MaxOps
    /\ \E c \in Components :
        /\ Len(join_one_dir(dirpath.out.val, c).str) <= MaxLen
        /\ dirpath' = [NoDirPath EXCEPT
                            !.pc = "join_one_dir", !.x = Some(c),
                            !.out = Some(join_one_dir(dirpath.out.val, c)),
                            !.n = dirpath.n + 1]
    /\ UNCHANGED <<backend, prefer_s3_redirects, task>>

\* p.join_dir(&path)
apply_join_dir ==
    /\ dirpath.pc # "join" /\ dirpath.out # None /\ dirpath.n < MaxOps
    /\ \E path \in DirPaths :
        /\ Len(join_dir(dirpath.out.val, path).str) <= MaxLen
        /\ dirpath' = [NoDirPath EXCEPT
                            !.pc = "join_dir", !.x = Some(path),
                            !.out = Some(join_dir(dirpath.out.val, path)),
                            !.n = dirpath.n + 1]
    /\ UNCHANGED <<backend, prefer_s3_redirects, task>>

\* p.parent()
apply_parent ==
    /\ dirpath.pc # "join" /\ dirpath.out # None /\ dirpath.n < MaxOps
    /\ dirpath' = [NoDirPath EXCEPT !.pc = "parent",
                                    !.out = parent(dirpath.out.val),
                                    !.n = dirpath.n + 1]
    /\ UNCHANGED <<backend, prefer_s3_redirects, task>>

\* p.relative_to(&x)
apply_relative_to ==
    /\ dirpath.pc # "join" /\ dirpath.out # None /\ dirpath.n < MaxOps
    /\ \E x \in DirPaths :
        dirpath' = [NoDirPath EXCEPT
                        !.pc = "relative_to", !.x = Some(x),
                        !.out = relative_to(dirpath.out.val, x),
                        !.n = dirpath.n + 1]
    /\ UNCHANGED <<backend, prefer_s3_redirects, task>>

\* p.join(&path): a valid PurePath has the grammar of a PureDirPath without
\* the trailing '/'
apply_join ==
    /\ dirpath.pc # "join" /\ dirpath.out # None /\ dirpath.n < MaxOps
    /\ \E d \in DirPaths :
        LET path == PurePath(strip_suffix(d.str, "/").val)
        IN  /\ Len(join(dirpath.out.val, path).str) <= MaxLen
            /\ dirpath' = [NoDirPath EXCEPT
                                !.pc = "join", !.x = Some(path),
                                !.out = Some(join(dirpath.out.val, path)),
                                !.n = dirpath.n + 1]
    /\ UNCHANGED <<backend, prefer_s3_redirects, task>>

NextOps ==
    \/ apply_push
    \/ apply_join_one_dir
    \/ apply_join_dir
    \/ apply_parent
    \/ apply_relative_to
    \/ apply_join

SpecOps == InitOps /\ [][NextOps]_vars

\* ------------------------------------------------------------- properties
PropfindMethods == {"PROPFIND", "propfind"}

\* Whether the request path maps to a DavPath.
Routable(uri) ==
    /\ split_uri_path(uri).some
    /\ from_components(split_uri_path(uri).val).some

\* Whether the Depth header and the body of a request pass the extractors.
Extractable(req) == req.depth \in {"0", "1"} /\ req.body # "malformed"

\* Whether a request passes all the validation of its verb.
Validated(req) ==
    /\ Routable(req.uri)
    /\ \/ req.method = "GET"
       \/ req.method \in PropfindMethods /\ Extractable(req)

\* C1: every response that handle_request returns carries the two fixed
\* headers, Allow: GET, HEAD, OPTIONS, PROPFIND and DAV: 1, 3, whatever the
\* verb and the outcome (200/204/207/307, 400, 404, 405, 500).
C1_FixedHeaders ==
    \A r \in Reqs :
        task[r].pc = "done" =>
            /\ <<"Allow", "GET, HEAD, OPTIONS, PROPFIND">> \in task[r].response.headers
            /\ <<"DAV", "1, 3">> \in task[r].response.headers
            /\ task[r].response.status \in {200, 204, 207, 307, 400, 404, 405, 500}

\* A request that ended in an internal error has been answered with the headers.
C1_Witness ==
    \E r \in Reqs :
        /\ task[r].pc = "done"
        /\ ~task[r].returned.ok
        /\ task[r].response.status = 500
        /\ WEBDAV_RESPONSE_HEADERS \subseteq task[r].response.headers

\* C2: no backend call is made before the request has passed validation: a
\* GET or PROPFIND with an unroutable path is answered 404 without a call
\* (also when its Depth is invalid), and a routable PROPFIND whose Depth or
\* body is rejected is answered with the extractor's response without a call.
C2_ValidationBeforeBackend ==
    \A r \in Reqs :
        LET t == task[r]
        IN  /\ t.calls # <<>> => Validated(t.req)
            /\ t.pc \notin {"idle", "dispatch", "extract", "done"} => Validated(t.req)
            /\ ( /\ t.pc = "done"
                 /\ t.req.method \in {"GET"} \cup PropfindMethods
                 /\ ~Routable(t.req.uri) )
                => t.response.status = 404 /\ t.calls = <<>>
            /\ ( /\ t.pc = "done"
                 /\ t.req.method \in PropfindMethods
                 /\ Routable(t.req.uri)
                 /\ ~Extractable(t.req) )
                => /\ t.response.status = 400
                   /\ t.returned = Ok(extract_request(t.req).err)
                   /\ t.calls = <<>>

\* A PROPFIND with an unroutable path and Depth: infinity was answered 404.
C2_Witness ==
    \E r \in Reqs :
        /\ task[r].pc = "done"
        /\ task[r].req.method = "PROPFIND"
        /\ ~Routable(task[r].req.uri)
        /\ task[r].req.depth = "infinity"
        /\ task[r].response.status = 404
        /\ task[r].calls = <<>>

\* C3: a successful PROPFIND is a 207 with one response element per resolved
\* resource: one for Depth 0; for Depth 1, [self] followed by the children in
\* their resolved order for a collection, and one for an item.
C3_PropfindResponses ==
    \A r \in Reqs :
        LET t == task[r]
            ms == t.response.body.multistatus
            res == t.result.val
        IN  ( /\ t.pc = "done"
              /\ t.req.method \in PropfindMethods
              /\ Validated(t.req) )
            => /\ (t.result.ok /\ t.returned.ok) => t.response.status = 207
               /\ t.response.status = 207 =>
                    /\ t.result.ok
                    /\ t.req.depth = "0" =>
                        /\ t.entry = "get_resource"
                        /\ Len(ms) = 1
                        /\ ms[1].resource = res
                    /\ t.req.depth = "1" =>
                        /\ t.entry = "get_resource_with_children"
                        /\ IF res.type = "Collection"
                           THEN /\ Len(ms) = 1 + Len(res.children)
                                /\ ms[1].resource = res.col
                                /\ \A i \in 1..Len(res.children) :
                                        ms[i + 1].resource = res.children[i]
                           ELSE /\ Len(ms) = 1
                                /\ ms[1].resource = res.item
                    /\ \A i \in 1..Len(ms) : ms[i].href = ms[i].resource.path

\* A Depth 1 PROPFIND on a collection with two children was answered 207
\* with three response elements.
C3_Witness ==
    \E r \in Reqs :
        /\ task[r].pc = "done"
        /\ task[r].req.method \in PropfindMethods
        /\ task[r].req.depth = "1"
        /\ task[r].response.status = 207
        /\ task[r].result.val.type = "Collection"
        /\ Len(task[r].result.val.children) = 2
        /\ Len(task[r].response.body.multistatus) = 3

\* An error is classified not-found: a backend error that is itself a
\* not-found, or NoLatestVersion; never a Render or Serialize error.
ClassifiedNotFound(e) ==
    \/ e.kind \in {"Dandi", "ZarrMan"} /\ e.not_found
    \/ e.kind = "NoLatestVersion"

\* C4: when request handling ends in an error, the status is 404 if the
\* error is classified not-found and 500 otherwise.
C4_ErrorStatus ==
    \A r \in Reqs :
        LET t == task[r]
        IN  (t.pc = "done" /\ ~t.returned.ok) =>
                /\ t.returned.err.kind \in
                        {"Dandi", "ZarrMan", "NoLatestVersion", "Template", "Xml"}
                /\ t.response.status = 404 <=> ClassifiedNotFound(t.returned.err)
                /\ t.response.status = 500 <=> ~ClassifiedNotFound(t.returned.err)

\* A request for the latest version of an unpublished Dandiset ended 404.
C4_Witness ==
    \E r \in Reqs :
        /\ task[r].pc = "done"
        /\ ~task[r].returned.ok
        /\ task[r].returned.err.kind = "NoLatestVersion"
        /\ task[r].response.status = 404

\* C5: OPTIONS on any path is answered 204 without parsing the path and
\* without a backend call; a method that equals PROPFIND ignoring ASCII case
\* is handled as PROPFIND; any verb other than GET, OPTIONS and PROPFIND is
\* answered 405 without a backend call.
C5_VerbDispatch ==
    \A r \in Reqs :
        LET t == task[r]
        IN  /\ t.req.method \notin {"GET"} \cup PropfindMethods => t.calls = <<>>
            /\ t.pc = "done" =>
                /\ t.req.method = "OPTIONS" =>
                    /\ t.response.status = 204
                    /\ t.path = NoPath
                /\ t.req.method \in PropfindMethods =>
                    /\ t.response.status # 405
                    /\ Validated(t.req) =>
                        /\ t.entry = IF t.req.depth = "0" THEN "get_resource"
                                     ELSE "get_resource_with_children"
                        /\ t.response.status \in {207, 404, 500}
                        /\ t.returned.ok => t.response.status = 207
                /\ t.req.method \notin {"GET", "OPTIONS"} \cup PropfindMethods =>
                    /\ t.response.status = 405
                    /\ t.path = NoPath

\* A lower-case propfind was answered with a multistatus.
C5_Witness ==
    \E r \in Reqs :
        /\ task[r].pc = "done"
        /\ task[r].req.method = "propfind"
        /\ task[r].response.status = 207

\* Whether the resolution of the task's address has returned, and with what.
HasResolved(t) == t.pc \in {"respond", "done"} /\ t.result # None
ResolvedOk(t) == HasResolved(t) /\ t.result.ok

\* The resources of a resolution's result: self, then the children.
Resources(t) ==
    IF t.entry = "get_resource" THEN <<t.result.val>> ELSE into_vec(t.result.val)

\* Whether the task resolves an address that carries the version spec Latest.
AsksLatest(t) == t.path.tag \in VersionedTags /\ t.path.version = Latest

\* Whether the Archive has a most recently published version of a Dandiset.
HasPublished(id) == backend_dandiset(id).most_recent_published_version.some

\* C6: for an address with spec Latest (Version, DandisetYaml, DandiResource)
\* and either entry point, when the fetched Dandiset has no most recently
\* published version the resolution fails with NoLatestVersion{id}, the
\* request is answered 404 and no call is made on a version endpoint.
C6_NoLatestVersion ==
    \A r \in Reqs :
        LET t == task[r]
            id == t.path.dandiset_id
        IN  (AsksLatest(t) /\ ~HasPublished(id)) =>
                /\ \A i \in 1..Len(t.calls) : t.calls[i].version = NoVersion
                /\ (HasResolved(t) /\ t.calls[1].ok) =>
                        t.result = Err(NoLatestVersion(id))
                /\ (t.pc = "done" /\ HasResolved(t) /\ t.calls[1].ok) =>
                        /\ t.returned = Err(NoLatestVersion(id))
                        /\ t.response.status = 404
                        /\ Len(t.calls) = 1
                        /\ t.calls[1].op = "dandiset.get"
                        /\ t.calls[1].dandiset_id = id

\* A Depth 0 PROPFIND of latest/dandiset.yaml of an unpublished Dandiset
\* fetched the Dandiset and was answered 404.
C6_Witness ==
    \E r \in Reqs :
        /\ task[r].pc = "done"
        /\ task[r].path.tag = "DandisetYaml"
        /\ task[r].path.version = Latest
        /\ task[r].entry = "get_resource"
        /\ ~HasPublished(task[r].path.dandiset_id)
        /\ Len(task[r].calls) = 1
        /\ task[r].calls[1].ok
        /\ task[r].returned = Err(NoLatestVersion(task[r].path.dandiset_id))
        /\ task[r].response.status = 404

\* The resources of a resolution's result, each without the version path
\* that its address starts with.
WithoutVersionPath(t) ==
    [i \in 1..Len(Resources(t)) |-> [Resources(t)[i] EXCEPT !.path = Drop(@, 3)]]

\* C7: when a Dandiset has a most recently published version v, an address
\* with spec Latest and the same address with spec Published(v) are resolved
\* on the same version endpoint, that of v, and to the same resources (self
\* and children, in order, with the same content), which differ only in the
\* version path their addresses start with.
C7_LatestAsPublished ==
    LET a == task[1]
        b == task[2]
        id == a.path.dandiset_id
        v == backend_dandiset(id).most_recent_published_version.val.version
    IN  (HasResolved(a) /\ HasResolved(b)) =>
            /\ a.path = [b.path EXCEPT !.version = Latest]
            /\ b.path.version = v
            /\ a.entry = b.entry
            /\ \A i \in 2..Len(a.calls) :
                    a.calls[i].dandiset_id = id /\ a.calls[i].version = v
            /\ \A i \in 1..Len(b.calls) :
                    b.calls[i].dandiset_id = id /\ b.calls[i].version = v
            /\ \A i \in 1..Len(b.calls) :
                    i + 1 <= Len(a.calls) => a.calls[i + 1].op = b.calls[i].op
            /\ (a.result.ok /\ b.result.ok) =>
                    /\ Len(a.calls) = Len(b.calls) + 1
                    /\ a.result.val.type = b.result.val.type
                    /\ WithoutVersionPath(a) = WithoutVersionPath(b)
                    /\ \A i \in 1..Len(Resources(a)) :
                        /\ IsPrefix(<<"dandisets", id, "latest">>,
                                    Resources(a)[i].path)
                        /\ IsPrefix(<<"dandisets", id, v.v>>,
                                    Resources(b)[i].path)

\* latest and the version it stands for were both listed with their
\* children: the root entries and dandiset.yaml.
C7_Witness ==
    /\ task[1].pc = "done"
    /\ task[2].pc = "done"
    /\ task[1].path.tag = "Version"
    /\ task[1].entry = "get_resource_with_children"
    /\ ResolvedOk(task[1])
    /\ ResolvedOk(task[2])
    /\ Len(task[1].result.val.children) = 3
    /\ task[1].result.val.children # task[2].result.val.children
    /\ WithoutVersionPath(task[1]) = WithoutVersionPath(task[2])

\* C8: every resource returned for a Version, DandisetYaml or DandiResource
\* address, self and children alike, is addressed under the version path of
\* the requested (dandiset id, version spec) pair, not under the concrete
\* version that Latest was resolved to.
C8_RequestedVersionPath ==
    \A r \in Reqs :
        LET t == task[r]
            prefix == version_path(t.path.dandiset_id, t.path.version)
        IN  t.path.tag \in VersionedTags =>
                /\ \A i \in 1..Len(t.children) : IsPrefix(prefix, t.children[i].path)
                /\ ResolvedOk(t) =>
                        \A i \in 1..Len(Resources(t)) :
                            /\ IsPrefix(prefix, Resources(t)[i].path)
                            /\ t.path.version = Latest =>
                                    Resources(t)[i].path[3] = "latest"

\* latest of a published Dandiset was resolved with its children: the root
\* listing and dandiset.yaml, served by the concrete version's endpoint.
C8_Witness ==
    \E r \in Reqs :
        /\ task[r].pc = "done"
        /\ task[r].path.tag = "Version"
        /\ task[r].path.version = Latest
        /\ task[r].entry = "get_resource_with_children"
        /\ ResolvedOk(task[r])
        /\ Len(task[r].result.val.children) = 3
        /\ task[r].calls[2].version.tag = "Published"
        /\ \A i \in 1..3 :
            IsPrefix(<<"dandisets", task[r].path.dandiset_id, "latest">>,
                     task[r].result.val.children[i].path)

\* C9: the children of Dandiset{id} are [draft] when the Dandiset has no
\* most recently published version and [draft, latest, releases], in that
\* order, when it has one.
C9_DandisetChildren ==
    \A r \in Reqs :
        LET t == task[r]
            id == t.path.dandiset_id
            children == t.result.val.children
            ds == backend_dandiset(id)
        IN  ( /\ t.path.tag = "Dandiset"
              /\ t.entry = "get_resource_with_children"
              /\ ResolvedOk(t) )
            => /\ children[1] = dandiset_version(ds.draft_version,
                                                 <<"dandisets", id, "draft">>)
               /\ IF HasPublished(id)
                  THEN /\ Len(children) = 3
                       /\ children[2] =
                            dandiset_version(ds.most_recent_published_version.val,
                                             <<"dandisets", id, "latest">>)
                       /\ children[3] = dandiset_releases(id)
                  ELSE Len(children) = 1

\* A published Dandiset was listed as draft, latest, releases.
C9_Witness ==
    \E r \in Reqs :
        /\ task[r].pc = "done"
        /\ task[r].path.tag = "Dandiset"
        /\ task[r].entry = "get_resource_with_children"
        /\ ResolvedOk(task[r])
        /\ HasPublished(task[r].path.dandiset_id)
        /\ [i \in 1..3 |-> task[r].result.val.children[i].path[3]]
                = <<"draft", "latest", "releases">>

\* C10: the children of DandisetReleases{id} are exactly the Published
\* versions of the backend's version sequence, in its order, each addressed
\* under its own version id; Draft entries are left out wherever they occur,
\* and a sequence without a Published version gives an empty collection.
C10_ReleasesChildren ==
    \A r \in Reqs :
        LET t == task[r]
            id == t.path.dandiset_id
            published == published_of(backend.versions)
        IN  ( /\ t.path.tag = "DandisetReleases"
              /\ t.entry = "get_resource_with_children"
              /\ HasResolved(t) )
            => /\ (\A i \in 1..Len(t.calls) : t.calls[i].ok) <=> t.result.ok
               /\ t.result.ok =>
                    /\ t.result.val.type = "Collection"
                    /\ t.result.val.col = dandiset_releases(id)
                    /\ Len(t.calls) = Len(backend.versions) + 1
                    /\ t.result.val.children =
                        [i \in 1..Len(published) |->
                            dandiset_version(DandisetVersion(id, published[i]),
                                             <<"dandisets", id, published[i].v>>)]

\* The releases of a Dandiset whose history is a Published version followed
\* by the draft were listed: one child.
C10_Witness ==
    \E r \in Reqs :
        /\ task[r].pc = "done"
        /\ task[r].path.tag = "DandisetReleases"
        /\ task[r].entry = "get_resource_with_children"
        /\ ResolvedOk(task[r])
        /\ Len(backend.versions) = 2
        /\ backend.versions[1].tag = "Published"
        /\ backend.versions[2].tag = "Draft"
        /\ Len(task[r].result.val.children) = 1

\* The releases of a Dandiset without a Published version were listed: an
\* empty collection.
C10_EmptyReached ==
    \E r \in Reqs :
        /\ task[r].pc = "done"
        /\ task[r].path.tag = "DandisetReleases"
        /\ task[r].entry = "get_resource_with_children"
        /\ ResolvedOk(task[r])
        /\ backend.versions = <<Draft>>
        /\ task[r].result.val.children = <<>>
        /\ task[r].response.status \in {200, 207}

\* C11: the first backend failure of a request, of a single call or in the
\* middle of a lazy sequence, ends the resolution with that error: no call
\* follows the failed one (no retry, no later call), the entries received so
\* far are dropped, and the response is the 404 or 500 of that error, never
\* a 207 or an HTML listing.
C11_FirstFailureEnds ==
    \A r \in Reqs :
        LET t == task[r]
            n == Len(t.calls)
        IN  \A i \in 1..n :
                ~t.calls[i].ok =>
                    /\ i = n
                    /\ HasResolved(t)
                    /\ t.result = Err(t.calls[i].err.val)
                    /\ t.children = <<>>
                    /\ t.stream = <<>>
                    /\ t.pc = "done" =>
                        /\ t.returned = t.result
                        /\ t.response.status \in {404, 500}
                        /\ t.response.status = 404 <=> t.calls[i].err.val.not_found
                        /\ t.response.body \in
                                {not_found.body, <<"error", t.calls[i].err.val>>}

\* The listing of a version failed in the middle of the root-children
\* sequence, after an entry had been received, and was answered 500.
C11_Witness ==
    \E r \in Reqs :
        LET t == task[r]
            n == Len(t.calls)
        IN  /\ t.pc = "done"
            /\ t.path.tag = "Version"
            /\ n >= 3
            /\ t.calls[n].op = "version.get_root_children"
            /\ ~t.calls[n].ok
            /\ t.calls[n - 1].op = "version.get_root_children"
            /\ t.calls[n - 1].ok
            /\ backend.nroot >= 1
            /\ t.response.status = 500

\* C12: a GET whose address resolves is answered by the variant of the
\* resolved resource: a collection by the templater's HTML listing of its
\* children, an item with Blob content by the blob with the item's content
\* type, an item with Redirect content by a 307 to the URL that
\* prefer_s3_redirects selects, an item with Missing content by a 404.
C12_GetByVariant ==
    \A r \in Reqs :
        LET t == task[r]
            rc == t.result.val
            resp == t.response
        IN  (t.pc = "done" /\ t.req.method = "GET" /\ ResolvedOk(t)) =>
                /\ t.entry = "get_resource_with_children"
                /\ rc.type = "Collection" =>
                    /\ t.returned.ok =>
                        /\ resp.status = 200
                        /\ <<"Content-Type", HTML_CONTENT_TYPE>> \in resp.headers
                        /\ resp.body.html = rc.children
                    /\ ~t.returned.ok =>
                        t.returned.err = TemplateError /\ resp.status = 500
                /\ (rc.type = "Item" /\ rc.item.content.tag = "Blob") =>
                    /\ resp.status = 200
                    /\ <<"Content-Type", rc.item.content_type>> \in resp.headers
                    /\ resp.body = rc.item.content.blob
                /\ (rc.type = "Item" /\ rc.item.content.tag = "Redirect") =>
                    /\ resp.status = 307
                    /\ <<"Location",
                         IF prefer_s3_redirects THEN rc.item.content.redir.s3
                         ELSE rc.item.content.redir.archive>> \in resp.headers
                /\ (rc.type = "Item" /\ rc.item.content.tag = "Missing") =>
                    resp.status = 404 /\ t.returned = Ok(not_found)

\* With prefer_s3_redirects set, a GET of an asset was redirected to S3.
C12_Witness ==
    \E r \in Reqs :
        LET t == task[r]
        IN  /\ t.pc = "done"
            /\ t.req.method = "GET"
            /\ ResolvedOk(t)
            /\ t.result.val.type = "Item"
            /\ t.result.val.item.content.tag = "Redirect"
            /\ prefer_s3_redirects
            /\ t.response.status = 307
            /\ <<"Location", t.result.val.item.content.redir.s3>>
                    \in t.response.headers
            /\ t.result.val.item.content.redir.s3
                    # t.result.val.item.content.redir.archive

\* Whether a resource is an item whose content is Missing.
IsMissingItem(res) == res.type = "Item" /\ res.content = Missing

\* C13 as claimed: an item with Missing content never leaves the resolution:
\* neither get_resource nor get_resource_with_children returns one, no 207
\* describes one, and every request for one is answered 404.
C13_MissingNeverLeaves ==
    \A r \in Reqs :
        LET t == task[r]
        IN  /\ ResolvedOk(t) =>
                \A i \in 1..Len(Resources(t)) : ~IsMissingItem(Resources(t)[i])
            /\ (t.pc = "done" /\ t.response.status = 207) =>
                \A i \in 1..Len(t.response.body.multistatus) :
                    ~IsMissingItem(t.response.body.multistatus[i].resource)

\* C13 as amended: get_resource and get_resource_with_children return an
\* item with Missing content like any other item; a GET of it is answered
\* 404 by get, and a PROPFIND of it (Depth 0 or 1) is answered, unless the
\* serialization fails, by a 207 whose response element describes the item.
C13_MissingTranslatedByGet ==
    \A r \in Reqs :
        LET t == task[r]
            ms == t.response.body.multistatus
        IN  ( /\ t.pc = "done"
              /\ ResolvedOk(t)
              /\ IsMissingItem(Resources(t)[1]) )
            => /\ t.req.method = "GET" =>
                    t.returned = Ok(not_found) /\ t.response.status = 404
               /\ t.req.method \in PropfindMethods =>
                    /\ t.returned.ok =>
                        /\ t.response.status = 207
                        /\ Len(ms) = 1
                        /\ IsMissingItem(ms[1].resource)
                        /\ ms[1].href = t.req.uri
                    /\ ~t.returned.ok =>
                        t.returned.err = ToXmlError /\ t.response.status = 500

\* A Depth 1 PROPFIND of an asset whose content is Missing was answered 207.
C13_Witness ==
    \E r \in Reqs :
        LET t == task[r]
        IN  /\ t.pc = "done"
            /\ t.req.method \in PropfindMethods
            /\ t.req.depth = "1"
            /\ ResolvedOk(t)
            /\ IsMissingItem(Resources(t)[1])
            /\ t.response.status = 207

\* The strings made of k or fewer segments, each a Component followed by '/'.
RECURSIVE Joined(_)
Joined(k) ==
    LET single == {c.str \o <<"/">> : c \in Components}
    IN  IF k = 0 THEN {}
        ELSE {q \in single : Len(q) <= MaxLen}
             \cup {pq \in {p \o q : p \in Joined(k - 1), q \in single} :
                        Len(pq) <= MaxLen}

\* One or more segments, each followed by a single '/'.
DirPathStrings == Joined(MaxLen)

\* C14: parsing accepts a string exactly when it is one or more segments,
\* each non-empty, not "." or "..", without '/' and NUL, each followed by one
\* '/'; it rejects the empty string, "/", a leading '/', a missing trailing
\* '/', a doubled '/', NUL and any "." or ".." segment; and the parsed value
\* serializes back to the string that was parsed.
C14_ParseAccepts ==
    dirpath.pc = "parsed" =>
        LET s == dirpath.s
            r == dirpath.parsed.val
        IN  /\ r.ok <=> s \in DirPathStrings
            /\ r.ok =>
                /\ to_string(r.val) = s
                /\ s \notin {<<>>, <<"/">>}
                /\ s[1] # "/"
                /\ s[Len(s)] = "/"
                /\ \A i \in 1..(Len(s) - 1) : ~(s[i] = "/" /\ s[i + 1] = "/")
                /\ \A i \in 1..Len(s) : s[i] # NUL

\* The two-segment string "a/.a/" was parsed and accepted.
C14_Witness ==
    /\ dirpath.pc = "parsed"
    /\ dirpath.s = <<"a", "/", ".", "a", "/">>
    /\ dirpath.parsed.val.ok
    /\ to_string(dirpath.parsed.val.val) = dirpath.s

\* The number of segments of a PureDirPath: each ends with a '/'.
NumSegments(p) == Cardinality({i \in 1..Len(p.str) : p.str[i] = "/"})

\* C15: parent() of a valid PureDirPath is None exactly when the path has
\* one segment; otherwise it is the valid PureDirPath of all its segments
\* but the last, so that parent().join_one_dir(name()) is the path.
C15_Parent ==
    dirpath.pc = "parent" =>
        LET p == dirpath.parsed.val.val
            out == dirpath.out
        IN  /\ out = None <=> NumSegments(p) = 1
            /\ out # None =>
                /\ from_str(to_string(out.val)) = Ok(out.val)
                /\ NumSegments(out.val) = NumSegments(p) - 1
                /\ name(p) \in Components
                /\ join_one_dir(out.val, name(p)) = p

\* The parent of "a/a/a/" was taken: "a/a/".
C15_Witness ==
    /\ dirpath.pc = "parent"
    /\ dirpath.s = <<"a", "/", "a", "/", "a", "/">>
    /\ dirpath.out = Some(PureDirPath(<<"a", "/", "a", "/">>))

\* The segments of a PureDirPath.
Segments(p) == split(SubSeq(p.str, 1, Len(p.str) - 1), "/")

\* C16: p.relative_to(x) is None when x is p and when x is not a proper
\* segment-wise prefix of p; when x is a proper ancestor of p it is a
\* non-empty valid PureDirPath r with x.join_dir(r) = p.
C16_RelativeTo ==
    dirpath.pc = "relative_to" =>
        LET p == dirpath.parsed.val.val
            x == dirpath.x.val
            out == dirpath.out
            ancestor == /\ Len(Segments(x)) < Len(Segments(p))
                        /\ IsPrefix(Segments(x), Segments(p))
        IN  /\ x = p => out = None
            /\ ~ancestor => out = None
            /\ ancestor =>
                /\ out # None
                /\ out.val.str # <<>>
                /\ from_str(to_string(out.val)) = Ok(out.val)
                /\ join_dir(x, out.val) = p

\* "a/.a/" was taken relative to its ancestor "a/": ".a/".
C16_Witness ==
    /\ dirpath.pc = "relative_to"
    /\ dirpath.s = <<"a", "/", ".", "a", "/">>
    /\ dirpath.x = Some(PureDirPath(<<"a", "/">>))
    /\ dirpath.out = Some(PureDirPath(<<".", "a", "/">>))

\* A path was taken relative to itself: None.
C16_SelfReached ==
    /\ dirpath.pc = "relative_to"
    /\ dirpath.x = Some(dirpath.parsed.val.val)
    /\ dirpath.out = None

\* Whether a string has a NUL, ends with '/', starts with '/'.
HasNul(s) == \E i \in 1..Len(s) : s[i] = NUL
EndsWithSlash(s) == Len(s) > 0 /\ s[Len(s)] = "/"
StartsWithSlash(s) == Len(s) > 0 /\ s[1] = "/"

\* C20 as claimed: a rejected input is reported by the first rule that
\* matches in the order: NUL (also without a trailing '/' or with a leading
\* '/'), then no trailing '/', then a leading '/', then a segment that is
\* empty, "." or "..".
C20_NulFirst ==
    (dirpath.pc = "parsed" /\ ~dirpath.parsed.val.ok) =>
        dirpath.parsed.val.err =
            IF HasNul(dirpath.s) THEN "Nul"
            ELSE IF ~EndsWithSlash(dirpath.s) THEN "NotDir"
            ELSE IF StartsWithSlash(dirpath.s) THEN "StartsWithSlash"
            ELSE "NotNormalized"

\* C20 as amended: a rejected input is reported by the first rule that
\* matches in the order: no trailing '/' (NotDir, the empty string included,
\* also when the input has a NUL or a leading '/'), then a leading '/'
\* (StartsWithSlash, also when the input has a NUL), then NUL, then a segment
\* that is empty, "." or ".." (NotNormalized).
C20_NotDirFirst ==
    (dirpath.pc = "parsed" /\ ~dirpath.parsed.val.ok) =>
        dirpath.parsed.val.err =
            IF ~EndsWithSlash(dirpath.s) THEN "NotDir"
            ELSE IF StartsWithSlash(dirpath.s) THEN "StartsWithSlash"
            ELSE IF HasNul(dirpath.s) THEN "Nul"
            ELSE "NotNormalized"

\* A string with a NUL, a leading '/' and no trailing '/' was rejected as
\* NotDir.
C20_Witness ==
    /\ dirpath.pc = "parsed"
    /\ dirpath.s = <<"/", NUL>>
    /\ dirpath.parsed.val = Err("NotDir")

\* The backend calls of get_resource_with_children on Version{id, spec}, in
\* order, when none fails: the root-children sequence is polled once per
\* entry and once more for its end.
VersionListingCalls(spec) ==
    (IF spec = Latest THEN <<"dandiset.get">> ELSE <<>>)
    \o <<"version.get">>
    \o [i \in 1..(backend.nroot + 1) |-> "version.get_root_children"]
    \o <<"version.get_metadata">>

\* The version an address's spec stands for in the Archive.
EndpointOf(id, spec) ==
    IF spec = Latest
    THEN backend_dandiset(id).most_recent_published_version.val.version
    ELSE spec

\* C18: get_resource_with_children on Version{id, spec} makes its backend
\* calls in a fixed order: the Dandiset fetch (only for Latest, and once),
\* the version fetch, the root-children sequence to its end, the version
\* metadata fetch; a failure at a step prevents the later ones; on success
\* the children are the root listing in the backend's order followed by
\* dandiset.yaml as the last element.
C18_VersionListingOrder ==
    \A r \in Reqs :
        LET t == task[r]
            id == t.path.dandiset_id
            spec == t.path.version
            expected == VersionListingCalls(spec)
            n == Len(t.calls)
            v == EndpointOf(id, spec)
            children == t.result.val.children
        IN  (t.path.tag = "Version" /\ t.entry = "get_resource_with_children") =>
                /\ n <= Len(expected)
                /\ \A i \in 1..n : t.calls[i].op = expected[i]
                /\ \A i \in 1..(n - 1) : t.calls[i].ok
                /\ \A i \in 1..n :
                        t.calls[i].op # "dandiset.get" => t.calls[i].version = v
                /\ ResolvedOk(t) =>
                    /\ n = Len(expected)
                    /\ t.calls[n].ok
                    /\ Len(children) = backend.nroot + 1
                    /\ \A i \in 1..backend.nroot :
                        children[i] =
                            under_version_path(
                                resource_from_dandi(root_entry(id, v, i)), id, spec)
                    /\ children[backend.nroot + 1] =
                            under_version_path(
                                item_from_metadata(backend_metadata(id, v)), id, spec)

\* latest of a published Dandiset with two root entries was listed: six
\* calls, three children, dandiset.yaml last.
C18_Witness ==
    \E r \in Reqs :
        LET t == task[r]
        IN  /\ t.pc = "done"
            /\ t.path.tag = "Version"
            /\ t.path.version = Latest
            /\ t.entry = "get_resource_with_children"
            /\ ResolvedOk(t)
            /\ backend.nroot = 2
            /\ Len(t.calls) = 6
            /\ t.calls[1].op = "dandiset.get"
            /\ t.result.val.children[3].kind = "dandiset.yaml"

\* The positions at which a task is about to make a backend call.
CallPcs ==
    {"dandiset.get", "version.get", "version.get_root_children",
     "version.get_metadata", "version.get_resource",
     "version.get_resource_with_children", "dandi.get_all_dandisets",
     "dandiset.get_all_versions", "zarrman.get_resource",
     "zarrman.get_resource_with_children", "zarrman.get_top_level_dirs"}

\* The address of a resource of a version before the version path is put in
\* front of it.
AddressInVersion(res) ==
    CASE res.kind = "version" -> <<>>
      [] res.kind = "dandiset.yaml" -> <<"dandiset.yaml">>
      [] OTHER -> res.origin.path

\* Whether the version path has been put in front of a resource's address.
Rewritten(res, id, spec) == IsPrefix(version_path(id, spec), res.path)

\* C19 as claimed: the version-path rewriting of a request's resources is
\* applied after all the backend I/O of the request: while a backend call of
\* the request is still to be made, no resource it holds has been rewritten.
C19_RewriteAfterAllIO ==
    \A r \in Reqs :
        LET t == task[r]
        IN  (t.path.tag \in VersionedTags /\ t.pc \in CallPcs) =>
                \A i \in 1..Len(t.children) :
                    ~Rewritten(t.children[i], t.path.dandiset_id, t.path.version)

\* C19 as amended: the version path is put in front of the address of each
\* resource exactly once, by the VersionHandler operation that fetched it
\* and as soon as it is fetched: in the listing of a Version every root
\* entry received so far is already rewritten while the sequence is still
\* being consumed and before the metadata fetch; for a DandisetYaml or
\* DandiResource address, resolved by one call on the version, the rewrite
\* is applied to the whole result after that call.
C19_RewriteOncePerResource ==
    \A r \in Reqs :
        LET t == task[r]
            id == t.path.dandiset_id
            spec == t.path.version
            polls == {i \in 1..Len(t.calls) :
                        t.calls[i].op = "version.get_root_children"}
        IN  t.path.tag \in VersionedTags =>
                /\ \A i \in 1..Len(t.children) :
                        t.children[i].path =
                            version_path(id, spec) \o AddressInVersion(t.children[i])
                /\ t.pc = "version.get_root_children" =>
                        Len(t.children) = Cardinality(polls)
                /\ t.path.tag # "Version" => t.children = <<>>
                /\ ResolvedOk(t) =>
                        \A i \in 1..Len(Resources(t)) :
                            Resources(t)[i].path =
                                version_path(id, spec)
                                    \o AddressInVersion(Resources(t)[i])

\* While the root-children sequence of a version had an entry left and the
\* metadata was still to be fetched, the entry received was already under
\* the version path.
C19_Witness ==
    \E r \in Reqs :
        LET t == task[r]
        IN  /\ t.pc = "version.get_root_children"
            /\ Len(t.children) = 1
            /\ Len(t.stream) = 1
            /\ Rewritten(t.children[1], t.path.dandiset_id, t.path.version)

\* C17: requests handled at the same time do not interfere: a step of one
\* request leaves the other request and what the handler holds (the backends'
\* content, the redirect flag) as they are, and it is a step that the
\* request would take when handled alone, so that the response of each
\* request is one it gets alone from the same backend.
C17_NoInterference ==
    [][ \A r \in Reqs :
            task'[r] # task[r] =>
                /\ \A o \in Reqs \ {r} : task'[o] = task[o]
                /\ backend' = backend
                /\ prefer_s3_redirects' = prefer_s3_redirects
                /\ \/ task[r].pc = "idle" /\ task'[r].pc = "dispatch"
                   \/ task'[r] \in Step(task[r]) ]_vars

\* Two different requests are both between two of their backend calls.
C17_Witness ==
    /\ task[1].pc \in CallPcs
    /\ task[2].pc \in CallPcs
    /\ task[1].calls # <<>>
    /\ task[2].calls # <<>>
    /\ task[1].req # task[2].req

\* Whether a string is a valid PureDirPath: non-empty, ending with exactly
\* one '/', without a leading '/', every segment a valid Component.
IsDirPathString(s) ==
    /\ s # <<>>
    /\ s[Len(s)] = "/"
    /\ Len(s) >= 2 /\ s[Len(s) - 1] # "/"
    /\ s[1] # "/"
    /\ LET segs == split(SubSeq(s, 1, Len(s) - 1), "/")
       IN  \A i \in 1..Len(segs) : Component(segs[i]) \in Components

\* Whether a string is a valid PurePath: non-empty, without a leading or a
\* trailing '/', every segment a valid Component.
IsPathString(s) ==
    /\ s # <<>>
    /\ s[1] # "/"
    /\ s[Len(s)] # "/"
    /\ LET segs == split(s, "/")
       IN  \A i \in 1..Len(segs) : Component(segs[i]) \in Components

\* C21: after any sequence of operations that starts from a parsed value or
\* from the conversion of a Component, the value that push, join_one_dir,
\* join_dir, parent or relative_to yields is a valid PureDirPath (non-empty,
\* exactly one trailing '/', no leading '/', every segment a valid Component)
\* that parsing accepts unchanged, and join with a valid PurePath yields a
\* valid PurePath.
C21_InvariantPreserved ==
    (dirpath.pc \in {"from_str", "from", "push", "join_one_dir", "join_dir",
                     "parent", "relative_to", "join"} /\ dirpath.out # None) =>
        IF dirpath.pc = "join"
        THEN IsPathString(dirpath.out.val.str)
        ELSE /\ IsDirPathString(to_string(dirpath.out.val))
             /\ from_str(to_string(dirpath.out.val)) = Ok(dirpath.out.val)

\* A third operation in a row yielded a PureDirPath: a push of ".a".
C21_Witness ==
    /\ dirpath.pc = "push"
    /\ dirpath.n = 3
    /\ dirpath.x = Some(Component(<<".", "a">>))
    /\ dirpath.out # None
    /\ from_str(to_string(dirpath.out.val)) = Ok(dirpath.out.val)

\* A join with a PurePath was the last of several operations.
C21_JoinReached ==
    /\ dirpath.pc = "join"
    /\ dirpath.n > 1
    /\ dirpath.out # None

\* The addresses that get_resource describes without asking a backend.
StaticTags == {"Root", "DandisetIndex", "DandisetReleases", "ZarrIndex"}

\* C22: get_resource (PROPFIND with Depth 0) on Root, DandisetIndex,
\* DandisetReleases{id} and ZarrIndex makes no backend call and always
\* succeeds with the collection of the address; the request is answered 207
\* whatever the id, unless the multistatus cannot be serialized (500).
C22_NoCallAlwaysSucceeds ==
    \A r \in Reqs :
        LET t == task[r]
        IN  (t.entry = "get_resource" /\ t.path # NoPath
                /\ t.path.tag \in StaticTags) =>
                /\ t.pc \in {"resolve", "respond", "done"}
                /\ t.calls = <<>>
                /\ t.pc \in {"respond", "done"} =>
                    /\ t.result # None
                    /\ t.result.ok
                    /\ t.result.val =
                        CASE t.path.tag = "Root" -> root
                          [] t.path.tag = "DandisetIndex" -> dandiset_index
                          [] t.path.tag = "DandisetReleases" ->
                                dandiset_releases(t.path.dandiset_id)
                          [] t.path.tag = "ZarrIndex" -> zarr_index
                /\ t.pc = "done" =>
                    /\ t.response.status \in {207, 500}
                    /\ t.response.status = 500 <=> t.returned = Err(ToXmlError)

\* A Depth 0 PROPFIND of the releases of Dandiset 000002 was answered 207
\* without a backend call.
C22_Witness ==
    \E r \in Reqs :
        LET t == task[r]
        IN  /\ t.pc = "done"
            /\ t.entry = "get_resource"
            /\ t.path.tag = "DandisetReleases"
            /\ t.path.dandiset_id = "000002"
            /\ t.calls = <<>>
            /\ t.response.status = 207

\* A Depth 1 PROPFIND of the same address was answered 404: the Archive
\* reported the Dandiset as not found when its versions were asked for.
C22_ChildrenNotFound ==
    \E r \in Reqs :
        LET t == task[r]
        IN  /\ t.pc = "done"
            /\ t.entry = "get_resource_with_children"
            /\ t.req.method \in PropfindMethods
            /\ t.path.tag = "DandisetReleases"
            /\ t.path.dandiset_id = "000002"
            /\ Len(t.calls) = 1
            /\ t.calls[1].op = "dandiset.get_all_versions"
            /\ ~t.calls[1].ok
            /\ t.response.status = 404

====
